---- MODULE Spec2Model ----
(***************************************************************************)
(* Verification model of hypergrib: the packed 64-bit NumericId            *)
(* (parameter/numeric_id.rs) and the dual-indexed ParameterDatabase       *)
(* (parameter/database.rs) of the grib_tables crate, and the GEFS schema  *)
(* version resolver and idx path codec (datasets/gefs.rs,                 *)
(* datasets/gefs/version.rs) of the hypergrib crates.                     *)
(*                                                                         *)
(* A u64 is modelled as its eight bytes, a function 0..7 -> 0..255 whose  *)
(* index is the byte number counted from the right (byte 0 is the least   *)
(* significant byte), because TLC's integers are 32 bits wide.            *)
(***************************************************************************)
EXTENDS Integers, Sequences, FiniteSets, TLC

VARIABLES
    builder,               \* the NumericIdBuilder under construction, or None
    built_from,            \* the fields of the builder consumed by the last build(), or None
    numeric_id,            \* the NumericId returned by the last build(), or None
    numeric_id_to_param,   \* ParameterDatabase: BTreeMap<NumericId, Parameter>
    abbrev_to_numeric_id,  \* ParameterDatabase: HashMap<Abbrev, BTreeSet<NumericId>>
    calls,                 \* history: the insert calls made so far, with their results
    MASTER_TABLE_VERSION,  \* crate::MASTER_TABLE_VERSION, a u8 fixed at start
    pc,                    \* where populate() is
    path_idx,              \* populate(): the place in CsvFiles of the current path
    local_index,           \* populate(): the HashMap get_local_index() returned
    resolutions,           \* history: the try_from_reference_datetime calls made, with their results
    encoded,               \* the last to_idx_path / to_idx_location call and its path, or None
    decoded,               \* the last decoded path and what the decoder did, or None
    rows_read,             \* table reader: the rows deserialized so far, in file order
    yielded,               \* table reader: the items the iterator has yielded so far
    paths,                 \* Manifest: HashSet<Arc<Path>>, each Arc with its allocation
    manifest,              \* Manifest: HashMap<Key, MessageLocation>
    manifest_inserts,      \* history: the Manifest::insert calls made, with their results
    aggregator,            \* which get_coord_labels runs: "hypergrib" or "indexer"
    list_stream,           \* history: the items the storage listing has yielded so far
    agg_pc,                \* where get_coord_labels is
    coord_labels_builder,  \* CoordLabelsBuilder: its five label sets
    decoder_calls,         \* history: the locations handed to the decoder
    coord_labels,          \* the CoordLabels returned by build(), or None
    requested,             \* LimitStore: the number of operations requested so far
    granted,               \* LimitStore: the number of permits granted so far
    completed              \* LimitStore: the number of operations completed so far

nid_vars == <<builder, built_from, numeric_id>>
db_vars == <<numeric_id_to_param, abbrev_to_numeric_id, calls>>
pop_vars == <<MASTER_TABLE_VERSION, pc, path_idx, local_index>>
gefs_vars == <<resolutions, encoded, decoded>>
tbl_vars == <<rows_read, yielded>>
man_vars == <<paths, manifest, manifest_inserts>>
agg_vars == <<aggregator, list_stream, agg_pc, coord_labels_builder, decoder_calls, coord_labels>>
lim_vars == <<requested, granted, completed>>
ext_vars == <<tbl_vars, man_vars, agg_vars, lim_vars>>
vars == <<builder, built_from, numeric_id, numeric_id_to_param, abbrev_to_numeric_id, calls, MASTER_TABLE_VERSION, pc, path_idx, local_index, resolutions, encoded, decoded, rows_read, yielded, paths, manifest, manifest_inserts, aggregator, list_stream, agg_pc, coord_labels_builder, decoder_calls, coord_labels, requested, granted, completed>>

\* Option<T>: None is the empty sequence, Some(x) the one-element sequence
None == <<>>
Some(x) == <<x>>
Unwrap(o) == o[1]

\* The table reader, the Manifest, the label aggregators and the LimitStore
\* before they are used: what each holds while another part of the program runs.
TblIdle ==
    /\ rows_read = <<>>
    /\ yielded = <<>>
ManIdle ==
    /\ paths = {}
    /\ manifest = <<>>
    /\ manifest_inserts = <<>>
AggIdle ==
    /\ aggregator = "hypergrib"
    /\ list_stream = <<>>
    /\ agg_pc = "idle"
    /\ coord_labels_builder = [reference_datetime |-> {}, ensemble_member |-> {},
                               forecast_step |-> {}, parameter |-> {}, vertical_level |-> {}]
    /\ decoder_calls = <<>>
    /\ coord_labels = None
LimIdle ==
    /\ requested = 0
    /\ granted = 0
    /\ completed = 0
ExtIdle == TblIdle /\ ManIdle /\ AggIdle /\ LimIdle

\* ------------------------------------------------------------------ u64

N_BITS_PER_BYTE == 8
U8_MAX == 255
U16_MAX == 65535

ByteIdx == 0..7

Pow2(n) == 2 ^ n

\* bitwise OR and AND of two bytes
RECURSIVE ByteOr(_, _)
ByteOr(a, b) ==
    IF a = 0 THEN b
    ELSE IF b = 0 THEN a
    ELSE (IF a % 2 = 1 \/ b % 2 = 1 THEN 1 ELSE 0) + 2 * ByteOr(a \div 2, b \div 2)

RECURSIVE ByteAnd(_, _)
ByteAnd(a, b) ==
    IF a = 0 \/ b = 0 THEN 0
    ELSE (IF a % 2 = 1 /\ b % 2 = 1 THEN 1 ELSE 0) + 2 * ByteAnd(a \div 2, b \div 2)

\* x | y and x & y on u64
U64Or(x, y) == [i \in ByteIdx |-> ByteOr(x[i], y[i])]
U64And(x, y) == [i \in ByteIdx |-> ByteAnd(x[i], y[i])]

\* u64::from(v) for a u8 or u16 value v, and `v as u64`
U64From(v) == [i \in ByteIdx |-> IF i <= 1 THEN (v \div (256 ^ i)) % 256 ELSE 0]

\* x << n_bits on u64 (n_bits < 64): bits shifted past bit 63 are dropped
U64Shl(x, n_bits) ==
    LET k == n_bits \div 8
        r == n_bits % 8
        at(j) == IF j \in ByteIdx THEN x[j] ELSE 0
    IN  [i \in ByteIdx |-> ((at(i - k) * Pow2(r)) % 256) + ((at(i - k - 1) * Pow2(r)) \div 256)]

\* x >> n_bits on u64 (n_bits < 64)
U64Shr(x, n_bits) ==
    LET k == n_bits \div 8
        r == n_bits % 8
        at(j) == IF j \in ByteIdx THEN x[j] ELSE 0
    IN  [i \in ByteIdx |-> (at(i + k) \div Pow2(r)) + ((at(i + k + 1) * Pow2(8 - r)) % 256)]

\* the derived Ord of NumericId(u64): x < y as unsigned integers
RECURSIVE U64LessFrom(_, _, _)
U64LessFrom(x, y, i) ==
    IF x[i] # y[i] THEN x[i] < y[i]
    ELSE IF i = 0 THEN FALSE
    ELSE U64LessFrom(x, y, i - 1)

U64Less(x, y) == U64LessFrom(x, y, 7)

U64LessEq(x, y) == x = y \/ U64Less(x, y)

\* `x as u8`: the low byte
AsU8(x) == x[0]

\* ------------------------------------------------------------ NumericId

PRODUCT_DISCIPLINE_BYTE == 7
PARAMETER_CATEGORY_BYTE == 6
PARAMETER_NUMBER_BYTE == 5
MASTER_TABLE_VERSION_BYTE == 4
ORIGINATING_CENTER_LEFT_BYTE == 3
ORIGINATING_CENTER_RIGHT_BYTE == 2
SUBCENTER_BYTE == 1
LOCAL_TABLE_VERSION_BYTE == 0

\* shift_left_by_n_bytes that shifts by n_bytes bits (N_BITS_PER_BYTE forgotten)
shift_left_by_n_bits(value_to_shift, n_bytes) ==
    U64Shl(U64From(value_to_shift), n_bytes)

shift_left_by_n_bytes(value_to_shift, n_bytes) ==
    LET n_bits == N_BITS_PER_BYTE * n_bytes
    IN  U64Shl(U64From(value_to_shift), n_bits)

\* NumericId::new with the discipline and the category in each other's byte
NumericId_new_swapped(product_discipline, parameter_category, parameter_number, master_table_version, originating_center, subcenter, local_table_version) ==
    U64Or(U64Or(U64Or(U64Or(U64Or(U64Or(
        shift_left_by_n_bytes(product_discipline, PARAMETER_CATEGORY_BYTE),
        shift_left_by_n_bytes(parameter_category, PRODUCT_DISCIPLINE_BYTE)),
        shift_left_by_n_bytes(parameter_number, PARAMETER_NUMBER_BYTE)),
        shift_left_by_n_bytes(master_table_version, MASTER_TABLE_VERSION_BYTE)),
        shift_left_by_n_bytes(originating_center, ORIGINATING_CENTER_RIGHT_BYTE)),
        shift_left_by_n_bytes(subcenter, SUBCENTER_BYTE)),
        U64From(local_table_version))

NumericId_new(product_discipline, parameter_category, parameter_number, master_table_version, originating_center, subcenter, local_table_version) ==
    U64Or(U64Or(U64Or(U64Or(U64Or(U64Or(
        shift_left_by_n_bytes(product_discipline, PRODUCT_DISCIPLINE_BYTE),
        shift_left_by_n_bytes(parameter_category, PARAMETER_CATEGORY_BYTE)),
        shift_left_by_n_bytes(parameter_number, PARAMETER_NUMBER_BYTE)),
        shift_left_by_n_bytes(master_table_version, MASTER_TABLE_VERSION_BYTE)),
        shift_left_by_n_bytes(originating_center, ORIGINATING_CENTER_RIGHT_BYTE)),
        shift_left_by_n_bytes(subcenter, SUBCENTER_BYTE)),
        U64From(local_table_version))

extract_nth_byte(self, nth_byte) ==
    LET n_bits_to_shift == N_BITS_PER_BYTE * nth_byte
        bit_mask == U64Shl(U64From(U8_MAX), n_bits_to_shift)
        masked_and_shifted == U64Shr(U64And(self, bit_mask), n_bits_to_shift)
    IN  AsU8(masked_and_shifted)

product_discipline(self) == extract_nth_byte(self, PRODUCT_DISCIPLINE_BYTE)
parameter_category(self) == extract_nth_byte(self, PARAMETER_CATEGORY_BYTE)
parameter_number(self) == extract_nth_byte(self, PARAMETER_NUMBER_BYTE)
master_table_version(self) == extract_nth_byte(self, MASTER_TABLE_VERSION_BYTE)

\* originating_center that ORs the two bytes without shifting the left one
originating_center_unshifted(self) ==
    LET left == extract_nth_byte(self, ORIGINATING_CENTER_LEFT_BYTE)
        right == extract_nth_byte(self, ORIGINATING_CENTER_RIGHT_BYTE)
    IN  ByteOr(left, right)

originating_center(self) ==
    LET left == extract_nth_byte(self, ORIGINATING_CENTER_LEFT_BYTE)
        right == extract_nth_byte(self, ORIGINATING_CENTER_RIGHT_BYTE)
    IN  \* (left << 8) | right on u16
        ByteOr((left * Pow2(N_BITS_PER_BYTE)) \div 256, 0) * 256
            + ByteOr((left * Pow2(N_BITS_PER_BYTE)) % 256, right)

subcenter(self) == extract_nth_byte(self, SUBCENTER_BYTE)
local_table_version(self) == extract_nth_byte(self, LOCAL_TABLE_VERSION_BYTE)

\* ----------------------------------------------------- NumericIdBuilder

NumericIdBuilder_new(d, c, n) ==
    [product_discipline |-> d,
     parameter_category |-> c,
     parameter_number |-> n,
     master_table_version |-> U8_MAX,
     originating_center |-> U16_MAX,
     subcenter |-> U8_MAX,
     local_table_version |-> U8_MAX]

set_master_table_version(self, v) == [self EXCEPT !.master_table_version = v]
set_originating_center(self, v) == [self EXCEPT !.originating_center = v]
set_subcenter(self, v) == [self EXCEPT !.subcenter = v]
set_local_table_version(self, v) == [self EXCEPT !.local_table_version = v]

build(self) ==
    NumericId_new(self.product_discipline, self.parameter_category,
                  self.parameter_number, self.master_table_version,
                  self.originating_center, self.subcenter,
                  self.local_table_version)

\* ------------------------------------------------- builder state machine

\* boundary values of a one-byte field and of the two-byte originating center
ByteVals == {0, 1, 254, 255}
CenterVals == {0, 255, 256, 400, 65280, 65535}

NidInit ==
    /\ builder = None
    /\ built_from = None
    /\ numeric_id = None
    /\ numeric_id_to_param = <<>>
    /\ abbrev_to_numeric_id = <<>>
    /\ calls = <<>>
    /\ MASTER_TABLE_VERSION = U8_MAX
    /\ pc = "idle"
    /\ path_idx = 0
    /\ local_index = <<>>
    /\ resolutions = <<>>
    /\ encoded = None
    /\ decoded = None
    /\ ExtIdle

New ==
    /\ builder = None
    /\ \E d \in ByteVals, c \in ByteVals, n \in ByteVals :
        /\ builder' = Some(NumericIdBuilder_new(d, c, n))
        /\ built_from' = None
        /\ numeric_id' = None
        /\ UNCHANGED <<ext_vars, db_vars, pop_vars, gefs_vars>>

SetMasterTableVersion ==
    /\ builder # None
    /\ \E v \in ByteVals : builder' = Some(set_master_table_version(Unwrap(builder), v))
    /\ UNCHANGED <<built_from, numeric_id>>
    /\ UNCHANGED <<ext_vars, db_vars, pop_vars, gefs_vars>>

SetOriginatingCenter ==
    /\ builder # None
    /\ \E v \in CenterVals : builder' = Some(set_originating_center(Unwrap(builder), v))
    /\ UNCHANGED <<built_from, numeric_id>>
    /\ UNCHANGED <<ext_vars, db_vars, pop_vars, gefs_vars>>

SetSubcenter ==
    /\ builder # None
    /\ \E v \in ByteVals : builder' = Some(set_subcenter(Unwrap(builder), v))
    /\ UNCHANGED <<built_from, numeric_id>>
    /\ UNCHANGED <<ext_vars, db_vars, pop_vars, gefs_vars>>

SetLocalTableVersion ==
    /\ builder # None
    /\ \E v \in ByteVals : builder' = Some(set_local_table_version(Unwrap(builder), v))
    /\ UNCHANGED <<built_from, numeric_id>>
    /\ UNCHANGED <<ext_vars, db_vars, pop_vars, gefs_vars>>

Build ==
    /\ builder # None
    /\ numeric_id' = Some(build(Unwrap(builder)))
    /\ built_from' = builder
    /\ builder' = None
    /\ UNCHANGED <<ext_vars, db_vars, pop_vars, gefs_vars>>

NidNext ==
    \/ New
    \/ SetMasterTableVersion
    \/ SetOriginatingCenter
    \/ SetSubcenter
    \/ SetLocalTableVersion
    \/ Build

SpecNid == NidInit /\ [][NidNext]_vars

\* C7: the seven accessors of a built NumericId return the seven values of the
\* builder it was built from (the originating center rebuilt from bytes 3 and 2).
RoundTrip ==
    numeric_id # None =>
        /\ product_discipline(Unwrap(numeric_id)) = Unwrap(built_from).product_discipline
        /\ parameter_category(Unwrap(numeric_id)) = Unwrap(built_from).parameter_category
        /\ parameter_number(Unwrap(numeric_id)) = Unwrap(built_from).parameter_number
        /\ master_table_version(Unwrap(numeric_id)) = Unwrap(built_from).master_table_version
        /\ originating_center(Unwrap(numeric_id)) = Unwrap(built_from).originating_center
        /\ subcenter(Unwrap(numeric_id)) = Unwrap(built_from).subcenter
        /\ local_table_version(Unwrap(numeric_id)) = Unwrap(built_from).local_table_version

\* the fields of a builder in the order NumericId lays them out, left to right
FieldTuple(b) ==
    <<b.product_discipline, b.parameter_category, b.parameter_number,
      b.master_table_version, b.originating_center, b.subcenter,
      b.local_table_version>>

RECURSIVE LexLessFrom(_, _, _)
LexLessFrom(s, t, i) ==
    IF i > Len(s) THEN FALSE
    ELSE IF s[i] # t[i] THEN s[i] < t[i]
    ELSE LexLessFrom(s, t, i + 1)

LexLess(s, t) == LexLessFrom(s, t, 1)

\* every builder the state machine can reach
AllBuilders ==
    [product_discipline : ByteVals, parameter_category : ByteVals,
     parameter_number : ByteVals, master_table_version : ByteVals,
     originating_center : CenterVals, subcenter : ByteVals,
     local_table_version : ByteVals]

\* the ids a set of builders builds
IdsOf(builders) == { build(b) : b \in builders }

\* the builders every built id is compared with, and their ids
ProbeByteVals == {1, 254}
ProbeCenterVals == {255, 256, 65280}
Probes ==
    [product_discipline : ProbeByteVals, parameter_category : ProbeByteVals,
     parameter_number : ProbeByteVals, master_table_version : ProbeByteVals,
     originating_center : ProbeCenterVals, subcenter : ProbeByteVals,
     local_table_version : ProbeByteVals]

\* <<builder, id, fields>> of every probe
ProbeIds == { <<b, build(b), FieldTuple(b)>> : b \in Probes }

RoundTripWitness ==
    /\ numeric_id # None
    /\ Unwrap(built_from).originating_center = 400
    /\ Unwrap(built_from).product_discipline = 254
    /\ Unwrap(built_from).local_table_version = 1
    /\ originating_center(Unwrap(numeric_id)) = 400

\* C8: packing is injective: builders that differ in a field build different
\* ids and equal builders build equal ids, at the boundary values of every byte.
Injective ==
    /\ \* over all builders at once; the builders do not change, so once is enough
       (builder = None /\ numeric_id = None)
          => Cardinality(IdsOf(AllBuilders)) = Cardinality(AllBuilders)
    /\ numeric_id # None =>
          \A p \in ProbeIds :
              (p[2] = Unwrap(numeric_id)) <=> (p[1] = Unwrap(built_from))

InjectiveWitness ==
    /\ numeric_id # None
    /\ \E p \in ProbeIds :
          /\ p[1] # Unwrap(built_from)
          /\ p[1].parameter_category = 254
          /\ Unwrap(built_from).parameter_category = 255
          /\ Unwrap(built_from).parameter_number = 0
          /\ [p[1] EXCEPT !.parameter_category = 255, !.parameter_number = 0]
                = Unwrap(built_from)

\* the closed range of the doc comment of NumericId:
\* 0x<d>_<c>_00_00_00_00_00_00 to 0x<d>_<c>_FF_FF_FF_FF_FF_FF
RangeLo(d, c) == [i \in ByteIdx |-> IF i = 7 THEN d ELSE IF i = 6 THEN c ELSE 0]
RangeHi(d, c) == [i \in ByteIdx |-> IF i = 7 THEN d ELSE IF i = 6 THEN c ELSE 255]

InRange(id, d, c) == U64LessEq(RangeLo(d, c), id) /\ U64LessEq(id, RangeHi(d, c))

\* C9: the order of NumericIds is the lexicographic order of their seven
\* fields, and the ids in the range of a discipline d and category c are the
\* ids whose discipline is d and category is c.
OrderIsLexicographic ==
    numeric_id # None =>
        LET id == Unwrap(numeric_id)
            fields == FieldTuple(Unwrap(built_from))
            discipline == product_discipline(id)
            category == parameter_category(id)
        IN  /\ \A p \in ProbeIds :
                  /\ U64Less(id, p[2]) <=> LexLess(fields, p[3])
                  /\ (id = p[2]) <=> (fields = p[3])
            /\ \A d \in ByteVals, c \in ByteVals :
                  InRange(id, d, c) <=> (discipline = d /\ category = c)

OrderIsLexicographicWitness ==
    /\ numeric_id # None
    /\ InRange(Unwrap(numeric_id), 1, 254)
    /\ Unwrap(built_from).originating_center = 256
    /\ \E p \in ProbeIds :
          /\ p[1].product_discipline = 1
          /\ p[1].parameter_category = 254
          /\ p[1].originating_center = 255
          /\ p[1].subcenter > Unwrap(built_from).subcenter
          /\ U64Less(p[2], Unwrap(numeric_id))

\* --------------------------------------------------- ParameterDatabase

\* Strings that the code only compares (abbreviations, units) are TLA+ strings;
\* names, which the table reader lower-cases and searches, are sequences of
\* characters.
NameFoo == <<"F", "o", "o">>
NameBar == <<"B", "a", "r">>

NumIds == 3
MaxCalls == 3

\* the identifiers and parameters offered to insert
Ids == { build(NumericIdBuilder_new(0, 0, n)) : n \in 0..(NumIds - 1) }
Abbrevs == {"", "FOO", "BAR"}
Params == [abbrev : Abbrevs, name : {NameFoo, NameBar}, unit : {"K"}]

Db == [numeric_id_to_param |-> numeric_id_to_param,
       abbrev_to_numeric_id |-> abbrev_to_numeric_id]

ParameterDatabase_new == [numeric_id_to_param |-> <<>>, abbrev_to_numeric_id |-> <<>>]

\* BTreeMap::insert / HashMap insert: the value under an existing key is replaced
MapInsert(m, k, v) == [x \in (DOMAIN m) \cup {k} |-> IF x = k THEN v ELSE m[x]]

\* BTreeMap::get
MapGet(m, k) == IF k \in DOMAIN m THEN Some(m[k]) ELSE None

Ok == [kind |-> "Ok", payload |-> <<>>]
NumericIdAlreadyExistsInAbbrevToNumericId(id, parameter) ==
    [kind |-> "NumericIdAlreadyExistsInAbbrevToNumericId", payload |-> <<id, parameter>>]
NumericIdAlreadyExistsInNumericIdToParam(id, old_param) ==
    [kind |-> "NumericIdAlreadyExistsInNumericIdToParam", payload |-> <<id, old_param>>]

\* update_abbrev_to_numeric_id with the result of set.insert negated
update_abbrev_to_numeric_id_negated(self, id, parameter) ==
    IF parameter.abbrev # ""
    THEN IF parameter.abbrev \in DOMAIN self.abbrev_to_numeric_id
         THEN [db |-> [self EXCEPT !.abbrev_to_numeric_id =
                          MapInsert(@, parameter.abbrev, @[parameter.abbrev] \cup {id})],
               numeric_id_is_unique |-> id \in self.abbrev_to_numeric_id[parameter.abbrev]]
         ELSE [db |-> [self EXCEPT !.abbrev_to_numeric_id =
                          MapInsert(@, parameter.abbrev, {id})],
               numeric_id_is_unique |-> TRUE]
    ELSE [db |-> self, numeric_id_is_unique |-> TRUE]

\* update_abbrev_to_numeric_id without the test for the empty abbreviation
update_abbrev_to_numeric_id_unguarded(self, id, parameter) ==
    IF parameter.abbrev \in DOMAIN self.abbrev_to_numeric_id
    THEN [db |-> [self EXCEPT !.abbrev_to_numeric_id =
                     MapInsert(@, parameter.abbrev, @[parameter.abbrev] \cup {id})],
          numeric_id_is_unique |-> id \notin self.abbrev_to_numeric_id[parameter.abbrev]]
    ELSE [db |-> [self EXCEPT !.abbrev_to_numeric_id =
                     MapInsert(@, parameter.abbrev, {id})],
          numeric_id_is_unique |-> TRUE]

\* update_abbrev_to_numeric_id with or_insert alone: an existing set is not extended
update_abbrev_to_numeric_id_first_only(self, id, parameter) ==
    IF parameter.abbrev # "" /\ parameter.abbrev \notin DOMAIN self.abbrev_to_numeric_id
    THEN [db |-> [self EXCEPT !.abbrev_to_numeric_id =
                     MapInsert(@, parameter.abbrev, {id})],
          numeric_id_is_unique |-> TRUE]
    ELSE [db |-> self, numeric_id_is_unique |-> TRUE]

\* update_abbrev_to_numeric_id whose and_modify replaces the set of ids by the
\* new id instead of adding to it
update_abbrev_to_numeric_id_replacing(self, id, parameter) ==
    IF parameter.abbrev # ""
    THEN [db |-> [self EXCEPT !.abbrev_to_numeric_id = MapInsert(@, parameter.abbrev, {id})],
          numeric_id_is_unique |->
              (parameter.abbrev \in DOMAIN self.abbrev_to_numeric_id)
                  => id \notin self.abbrev_to_numeric_id[parameter.abbrev]]
    ELSE [db |-> self, numeric_id_is_unique |-> TRUE]

\* Returns the database with its abbreviation index updated and whether the id
\* is unique within the set of ids of parameter.abbrev.
update_abbrev_to_numeric_id(self, id, parameter) ==
    IF parameter.abbrev # ""
    THEN IF parameter.abbrev \in DOMAIN self.abbrev_to_numeric_id
         THEN \* and_modify: numeric_id_is_unique = set.insert(numeric_id)
              [db |-> [self EXCEPT !.abbrev_to_numeric_id =
                          MapInsert(@, parameter.abbrev, @[parameter.abbrev] \cup {id})],
               numeric_id_is_unique |-> id \notin self.abbrev_to_numeric_id[parameter.abbrev]]
         ELSE \* or_insert(BTreeSet::from([numeric_id]))
              [db |-> [self EXCEPT !.abbrev_to_numeric_id =
                          MapInsert(@, parameter.abbrev, {id})],
               numeric_id_is_unique |-> TRUE]
    ELSE [db |-> self, numeric_id_is_unique |-> TRUE]

\* insert that drops the value BTreeMap::insert returns and reports success
insert_ignores_previous(self, id, parameter) ==
    LET u == update_abbrev_to_numeric_id(self, id, parameter)
    IN  IF ~u.numeric_id_is_unique
        THEN [db |-> u.db,
              result |-> NumericIdAlreadyExistsInAbbrevToNumericId(id, parameter)]
        ELSE [db |-> [u.db EXCEPT !.numeric_id_to_param = MapInsert(@, id, parameter)],
              result |-> Ok]

insert(self, id, parameter) ==
    LET u == update_abbrev_to_numeric_id(self, id, parameter)
    IN  IF ~u.numeric_id_is_unique
        THEN [db |-> u.db,
              result |-> NumericIdAlreadyExistsInAbbrevToNumericId(id, parameter)]
        ELSE LET old == MapGet(u.db.numeric_id_to_param, id)
                 db2 == [u.db EXCEPT !.numeric_id_to_param = MapInsert(@, id, parameter)]
             IN  IF old = None
                 THEN [db |-> db2, result |-> Ok]
                 ELSE [db |-> db2,
                       result |-> NumericIdAlreadyExistsInNumericIdToParam(id, Unwrap(old))]

num_numeric_ids(self) == Cardinality(DOMAIN self.numeric_id_to_param)
num_abbrevs(self) == Cardinality(DOMAIN self.abbrev_to_numeric_id)

\* the elements of a BTreeSet<NumericId> in iteration (ascending) order
RECURSIVE BTreeSetIter(_)
BTreeSetIter(set) ==
    IF set = {} THEN <<>>
    ELSE LET least == CHOOSE x \in set : \A y \in set : U64LessEq(x, y)
         IN  <<least>> \o BTreeSetIter(set \ {least})

\* [panicked, entries]: panicked when an indexed id is missing from the primary
\* map (the unwrap() of line 94), else the (id, parameter) pairs in id order.
abbrev_to_parameter(self, abbrev) ==
    IF abbrev \notin DOMAIN self.abbrev_to_numeric_id
    THEN [panicked |-> FALSE, entries |-> <<>>]
    ELSE LET numeric_ids == BTreeSetIter(self.abbrev_to_numeric_id[abbrev])
             missing == \E i \in 1..Len(numeric_ids) :
                            MapGet(self.numeric_id_to_param, numeric_ids[i]) = None
         IN  IF missing
             THEN [panicked |-> TRUE, entries |-> <<>>]
             ELSE [panicked |-> FALSE,
                   entries |-> [i \in 1..Len(numeric_ids) |->
                       <<numeric_ids[i], self.numeric_id_to_param[numeric_ids[i]]>>]]

\* where an insert call came from: a direct call, or a row of a table file
Direct == [kind |-> "direct", file_name |-> ""]

Init ==
    /\ builder = None
    /\ built_from = None
    /\ numeric_id = None
    /\ numeric_id_to_param = ParameterDatabase_new.numeric_id_to_param
    /\ abbrev_to_numeric_id = ParameterDatabase_new.abbrev_to_numeric_id
    /\ calls = <<>>
    /\ MASTER_TABLE_VERSION = U8_MAX
    /\ pc = "idle"
    /\ path_idx = 0
    /\ local_index = <<>>
    /\ resolutions = <<>>
    /\ encoded = None
    /\ decoded = None
    /\ ExtIdle

Insert ==
    /\ Len(calls) < MaxCalls
    /\ \E id \in Ids, p \in Params :
        LET r == insert(Db, id, p)
        IN  /\ numeric_id_to_param' = r.db.numeric_id_to_param
            /\ abbrev_to_numeric_id' = r.db.abbrev_to_numeric_id
            /\ calls' = Append(calls, [numeric_id |-> id, parameter |-> p,
                                       result |-> r.result, origin |-> Direct])
    /\ UNCHANGED <<ext_vars, gefs_vars, nid_vars, pop_vars, gefs_vars>>

Next == Insert

Spec == Init /\ [][Next]_vars

\* the insert call made by the current step, when the step is an insert
IsInsertStep == Len(calls') = Len(calls) + 1
ThisCall == calls'[Len(calls')]

Succeeded(i) == calls[i].result.kind = "Ok"
CallsWithAbbrev(a) == { i \in 1..Len(calls) : calls[i].parameter.abbrev = a }

\* C1: after any sequence of insert calls, successful or failed, every id in the
\* abbreviation index is a key of the primary map, so abbrev_to_parameter never
\* unwraps a missing id.
IndexWithinPrimary ==
    /\ \A a \in DOMAIN abbrev_to_numeric_id :
           abbrev_to_numeric_id[a] \subseteq DOMAIN numeric_id_to_param
    /\ \A a \in Abbrevs : ~abbrev_to_parameter(Db, a).panicked

IndexWithinPrimaryWitness ==
    /\ \E i \in 1..Len(calls) : ~Succeeded(i)
    /\ \E i \in 1..Len(calls) : Succeeded(i)
    /\ \E a \in DOMAIN abbrev_to_numeric_id : Cardinality(abbrev_to_numeric_id[a]) >= 2

\* C2: an insert of an id that is already a key of the primary map returns an
\* error, whatever parameter accompanies it, and num_numeric_ids() is the same
\* after the call as before it.
DuplicateIdRejected ==
    [][(IsInsertStep /\ ThisCall.numeric_id \in DOMAIN numeric_id_to_param)
          => /\ ThisCall.result.kind # "Ok"
             /\ num_numeric_ids(Db') = num_numeric_ids(Db)]_vars

DuplicateIdRejectedWitness ==
    \E i, j \in 1..Len(calls) :
        /\ i < j
        /\ calls[i].numeric_id = calls[j].numeric_id
        /\ calls[i].parameter.abbrev # calls[j].parameter.abbrev
        /\ calls[j].parameter.abbrev = ""
        /\ ~Succeeded(j)

\* C3: insert fails with NumericIdAlreadyExistsInNumericIdToParam whenever the id
\* is already a key of the primary map, whatever abbreviation the parameter
\* carries; NumericIdAlreadyExistsInAbbrevToNumericId is returned only when the
\* (abbreviation, id) pair is already in the abbreviation index.
DuplicateIdErrorKind ==
    [][IsInsertStep =>
          /\ ThisCall.numeric_id \in DOMAIN numeric_id_to_param
                => ThisCall.result.kind = "NumericIdAlreadyExistsInNumericIdToParam"
          /\ ThisCall.result.kind = "NumericIdAlreadyExistsInAbbrevToNumericId"
                => /\ ThisCall.parameter.abbrev \in DOMAIN abbrev_to_numeric_id
                   /\ ThisCall.numeric_id \in abbrev_to_numeric_id[ThisCall.parameter.abbrev]]_vars

\* C4: for a non-empty abbreviation carried by exactly one successfully inserted
\* (id, parameter) pair, abbrev_to_parameter returns exactly one entry, with the
\* inserted id and the inserted parameter, whatever else was inserted.
InsertedOnceRetrievedOnce ==
    \A a \in Abbrevs \ {""} :
        LET ok == { i \in CallsWithAbbrev(a) : Succeeded(i) }
        IN  Cardinality(ok) = 1 =>
                LET i == CHOOSE i \in ok : TRUE
                IN  abbrev_to_parameter(Db, a) =
                        [panicked |-> FALSE,
                         entries |-> << <<calls[i].numeric_id, calls[i].parameter>> >>]

\* C5: an insert with the empty abbreviation succeeds when its id is new (the id
\* is added to the primary map), never creates or extends an entry of the
\* abbreviation index, and abbrev_to_parameter("") is always the empty list.
EmptyAbbrevNotIndexed ==
    /\ [](/\ "" \notin DOMAIN abbrev_to_numeric_id
          /\ abbrev_to_parameter(Db, "") = [panicked |-> FALSE, entries |-> <<>>])
    /\ [][(IsInsertStep /\ ThisCall.parameter.abbrev = "")
            => /\ abbrev_to_numeric_id' = abbrev_to_numeric_id
               /\ ThisCall.numeric_id \notin DOMAIN numeric_id_to_param
                    => /\ ThisCall.result = Ok
                       /\ numeric_id_to_param' =
                            MapInsert(numeric_id_to_param, ThisCall.numeric_id,
                                      ThisCall.parameter)]_vars

EmptyAbbrevNotIndexedWitness ==
    /\ Cardinality({ i \in CallsWithAbbrev("") : Succeeded(i) }) >= 2
    /\ DOMAIN abbrev_to_numeric_id # {}

\* C6: abbrev_to_parameter returns the empty list for an abbreviation no insert
\* carried; when the calls that carry a non-empty abbreviation use k distinct
\* ids that no other call uses, all k calls succeed and the lookup returns
\* exactly those k ids, in id order, each with the parameter inserted under it.
CallIds(I) == { calls[i].numeric_id : i \in I }
SharedAbbrevRetrievesAll ==
    \A a \in Abbrevs \ {""} :
        LET with == CallsWithAbbrev(a)
            others == (1..Len(calls)) \ with
            got == abbrev_to_parameter(Db, a)
        IN  (/\ Cardinality(CallIds(with)) = Cardinality(with)
             /\ CallIds(with) \cap CallIds(others) = {})
            => /\ \A i \in with : Succeeded(i)
               /\ ~got.panicked
               /\ Len(got.entries) = Cardinality(with)
               /\ { got.entries[k] : k \in 1..Len(got.entries) }
                    = { <<calls[i].numeric_id, calls[i].parameter>> : i \in with }
               /\ \A k \in 1..(Len(got.entries) - 1) :
                    U64Less(got.entries[k][1], got.entries[k + 1][1])

SharedAbbrevRetrievesAllWitness ==
    \E a \in Abbrevs \ {""}, b \in Abbrevs \ {""} :
        /\ Cardinality(CallsWithAbbrev(a)) >= 2
        /\ Cardinality(CallIds(CallsWithAbbrev(a))) = Cardinality(CallsWithAbbrev(a))
        /\ CallIds(CallsWithAbbrev(a)) \cap CallIds((1..Len(calls)) \ CallsWithAbbrev(a)) = {}
        /\ Len(abbrev_to_parameter(Db, a).entries) >= 2
        /\ CallsWithAbbrev(b) = {}
        /\ abbrev_to_parameter(Db, b).entries = <<>>

\* -------------------------------------------------------- table sources

NameTemperature == <<"T", "e", "m", "p", "e", "r", "a", "t", "u", "r", "e">>
NameReserved == <<"R", "e", "s", "e", "r", "v", "e", "d">>

UpperCase == <<"A", "B", "C", "D", "E", "F", "G", "H", "I", "J", "K", "L", "M",
               "N", "O", "P", "Q", "R", "S", "T", "U", "V", "W", "X", "Y", "Z">>
LowerCase == <<"a", "b", "c", "d", "e", "f", "g", "h", "i", "j", "k", "l", "m",
               "n", "o", "p", "q", "r", "s", "t", "u", "v", "w", "x", "y", "z">>

\* str::to_lowercase and str::contains, on sequences of characters
to_lowercase(str) ==
    [i \in 1..Len(str) |->
        IF \E k \in 1..Len(UpperCase) : UpperCase[k] = str[i]
        THEN LowerCase[CHOOSE k \in 1..Len(UpperCase) : UpperCase[k] = str[i]]
        ELSE str[i]]

contains(str, pat) ==
    \E i \in 0..(Len(str) - Len(pat)) : SubSeq(str, i + 1, i + Len(pat)) = pat

\* the filter of gdal_table_4_2_iterator without the to_lowercase of the name
record_is_kept_case_sensitive(record) ==
    /\ record.subcat >= 0
    /\ ~contains(record.name, <<"r", "e", "s", "e", "r", "v", "e", "d">>)
    /\ ~contains(record.name, <<"m", "i", "s", "s", "i", "n", "g">>)

\* the filter of gdal_table_4_2_iterator
record_is_kept(record) ==
    LET lc_name == to_lowercase(record.name)
    IN  /\ record.subcat >= 0
        /\ ~contains(lc_name, <<"r", "e", "s", "e", "r", "v", "e", "d">>)
        /\ ~contains(lc_name, <<"m", "i", "s", "s", "i", "n", "g">>)

\* From<&GdalTable4_2Record> for NumericIdBuilder (subcat is 0..255 in the
\* records offered, so the try_into of line 53 succeeds)
NumericIdBuilder_from_record(record) ==
    NumericIdBuilder_new(Unwrap(record.prod), Unwrap(record.cat), record.subcat)

\* From<GdalTable4_2Record> for Parameter
Parameter_from_record(record) ==
    [abbrev |-> record.short_name, name |-> record.name, unit |-> record.unit]

\* From<GdalTable4_2Record> for (NumericIdBuilder, Parameter)
record_into(record) ==
    <<NumericIdBuilder_from_record(record), Parameter_from_record(record)>>

\* the map closure of gdal_master_table_4_2_iterator
master_record_into(record, discipline, category) ==
    record_into([record EXCEPT !.prod = Some(discipline), !.cat = Some(category)])

\* A subcenter token is None for the empty field and Some(n) for a field that
\* parses as the u16 n. The result is Some(u8) for Ok and None for Err.
deserialize_subcenter_code(token) ==
    IF token = None THEN Some(U8_MAX)
    ELSE IF Unwrap(token) = U16_MAX THEN Some(U8_MAX)
    ELSE IF Unwrap(token) <= U8_MAX THEN Some(Unwrap(token))
    ELSE None

FileNCEP == "grib2_table_4_2_local_NCEP.csv"
FileNDFD == "grib2_table_4_2_local_NDFD.csv"

\* [panicked, map]: the HashMap<String, (u16, u8)> of get_local_index
RECURSIVE get_local_index_from(_, _)
get_local_index_from(rows, map) ==
    IF rows = <<>> THEN [panicked |-> FALSE, map |-> map]
    ELSE LET record == Head(rows)
             subcenter_code == deserialize_subcenter_code(record.subcenter_code)
         IN  IF subcenter_code = None
             THEN [panicked |-> TRUE, map |-> map]
             ELSE IF /\ record.filename \in DOMAIN map
                     /\ record.filename = FileNDFD
                     /\ record.center_code = 8
                     /\ Unwrap(subcenter_code) = U8_MAX
             THEN get_local_index_from(Tail(rows), map)
             ELSE IF record.filename \in DOMAIN map
             THEN [panicked |-> TRUE, map |-> map]
             ELSE get_local_index_from(Tail(rows),
                      MapInsert(map, record.filename,
                                <<record.center_code, Unwrap(subcenter_code)>>))

get_local_index(rows) == get_local_index_from(rows, <<>>)

\* populate(), lines 60-62: the id of a master-table record
master_numeric_id(numeric_id_builder, version) ==
    build(set_master_table_version(numeric_id_builder, version))

\* populate() without the set_subcenter of line 73
local_numeric_id_without_subcenter(numeric_id_builder, version, center_and_subcenter) ==
    build(set_originating_center(set_master_table_version(numeric_id_builder, version),
                                 center_and_subcenter[1]))

\* populate(), lines 69-74: the id of a local-table record
local_numeric_id(numeric_id_builder, version, center_and_subcenter) ==
    build(set_subcenter(
              set_originating_center(set_master_table_version(numeric_id_builder, version),
                                     center_and_subcenter[1]),
              center_and_subcenter[2]))

\* ------------------------------------------------------------- populate

\* The paths list_gdal_table_4_2_csv_files can yield, in the order glob yields
\* them, each with what populate's tests of the file name find: the index file,
\* a match of re_master_table with its captures, a match of re_local_table, or
\* no match.
CsvFiles ==
    << [file_name |-> "grib2_table_4_2_0_0.csv", kind |-> "master",
        discipline |-> 0, category |-> 0],
       [file_name |-> "grib2_table_4_2_0_1.csv", kind |-> "master",
        discipline |-> 0, category |-> 1],
       [file_name |-> FileNCEP, kind |-> "local", discipline |-> 0, category |-> 0],
       [file_name |-> FileNDFD, kind |-> "local", discipline |-> 0, category |-> 0],
       [file_name |-> "grib2_table_4_2_local_index.csv", kind |-> "index",
        discipline |-> 0, category |-> 0],
       [file_name |-> "grib2_table_4_2_notes.csv", kind |-> "none",
        discipline |-> 0, category |-> 0] >>

\* the records a master table and a local table can hold
MasterRecords ==
    [prod : {None}, cat : {None}, subcat : {-1, 0, 1}, short_name : {"", "TMP"},
     name : {NameTemperature, NameReserved}, unit : {"K"}]
LocalRecords ==
    [prod : {Some(0)}, cat : {Some(0)}, subcat : {-1, 0, 192}, short_name : {"", "TMP"},
     name : {NameTemperature, NameReserved}, unit : {"K"}]

\* the contents grib2_table_4_2_local_index.csv can have
IndexFiles ==
    { << [center_code |-> 7, subcenter_code |-> None, filename |-> FileNCEP],
         [center_code |-> 8, subcenter_code |-> Some(0), filename |-> FileNDFD],
         [center_code |-> 8, subcenter_code |-> Some(65535), filename |-> FileNDFD] >>,
      << [center_code |-> 7, subcenter_code |-> Some(4), filename |-> FileNCEP],
         [center_code |-> 54, subcenter_code |-> Some(65535), filename |-> FileNDFD] >>,
      << [center_code |-> 7, subcenter_code |-> Some(0), filename |-> FileNCEP] >>,
      << [center_code |-> 7, subcenter_code |-> Some(0), filename |-> FileNCEP],
         [center_code |-> 7, subcenter_code |-> Some(1), filename |-> FileNCEP] >>,
      << [center_code |-> 7, subcenter_code |-> Some(300), filename |-> FileNCEP] >> }

MasterTableVersions == {1, 255}

PopInit ==
    /\ builder = None
    /\ built_from = None
    /\ numeric_id = None
    /\ numeric_id_to_param = ParameterDatabase_new.numeric_id_to_param
    /\ abbrev_to_numeric_id = ParameterDatabase_new.abbrev_to_numeric_id
    /\ calls = <<>>
    /\ MASTER_TABLE_VERSION \in MasterTableVersions
    /\ pc = "idle"
    /\ path_idx = 0
    /\ local_index = <<>>
    /\ resolutions = <<>>
    /\ encoded = None
    /\ decoded = None
    /\ ExtIdle

\* let local_index = get_local_index();
PopulateStart ==
    /\ pc = "idle"
    /\ \E rows \in IndexFiles :
        LET index == get_local_index(rows)
        IN  IF index.panicked
            THEN pc' = "panicked" /\ local_index' = local_index
            ELSE pc' = "listing" /\ local_index' = index.map
    /\ UNCHANGED <<ext_vars, gefs_vars, nid_vars, db_vars, MASTER_TABLE_VERSION, path_idx>>

\* the next path of the listing, and the branch populate takes on its file name
NextPath ==
    /\ pc = "listing"
    /\ \E i \in (path_idx + 1)..Len(CsvFiles) :
        /\ path_idx' = i
        /\ pc' = CASE CsvFiles[i].kind = "index" -> "listing"
                   [] CsvFiles[i].kind = "master" -> "master_rows"
                   [] CsvFiles[i].kind = "local" -> "local_rows"
                   [] OTHER -> "failed"
    /\ UNCHANGED <<ext_vars, gefs_vars, nid_vars, db_vars, MASTER_TABLE_VERSION, local_index>>

\* the listing is exhausted: Ok(self)
EndOfListing ==
    /\ pc = "listing"
    /\ pc' = "done"
    /\ UNCHANGED <<ext_vars, gefs_vars, nid_vars, db_vars, MASTER_TABLE_VERSION, path_idx, local_index>>

\* the insert of populate without the `?`: populate carries on after an error
PopulateInsert_continues(id, parameter, origin) ==
    LET r == insert(Db, id, parameter)
    IN  /\ numeric_id_to_param' = r.db.numeric_id_to_param
        /\ abbrev_to_numeric_id' = r.db.abbrev_to_numeric_id
        /\ calls' = Append(calls, [numeric_id |-> id, parameter |-> parameter,
                                   result |-> r.result, origin |-> origin])
        /\ pc' = pc

\* self.insert(numeric_id, parameter).with_context(..)?
PopulateInsert(id, parameter, origin) ==
    LET r == insert(Db, id, parameter)
    IN  /\ numeric_id_to_param' = r.db.numeric_id_to_param
        /\ abbrev_to_numeric_id' = r.db.abbrev_to_numeric_id
        /\ calls' = Append(calls, [numeric_id |-> id, parameter |-> parameter,
                                   result |-> r.result, origin |-> origin])
        /\ pc' = IF r.result = Ok THEN pc ELSE "failed"

\* one record read from the current master table
MasterRow ==
    /\ pc = "master_rows"
    /\ Len(calls) < MaxCalls
    /\ \E raw \in MasterRecords :
        IF ~record_is_kept(raw)
        THEN UNCHANGED <<db_vars, pc>>
        ELSE LET file == CsvFiles[path_idx]
                 record == master_record_into(raw, file.discipline, file.category)
             IN  PopulateInsert(master_numeric_id(record[1], MASTER_TABLE_VERSION),
                                record[2],
                                [kind |-> "master", file_name |-> file.file_name])
    /\ UNCHANGED <<ext_vars, gefs_vars, nid_vars, MASTER_TABLE_VERSION, path_idx, local_index>>

MasterEnd ==
    /\ pc = "master_rows"
    /\ pc' = "listing"
    /\ UNCHANGED <<ext_vars, gefs_vars, nid_vars, db_vars, MASTER_TABLE_VERSION, path_idx, local_index>>

\* one record read from the current local table
LocalRow ==
    /\ pc = "local_rows"
    /\ Len(calls) < MaxCalls
    /\ \E raw \in LocalRecords :
        LET file == CsvFiles[path_idx]
        IN  IF ~record_is_kept(raw)
            THEN UNCHANGED <<db_vars, pc>>
            ELSE IF file.file_name \notin DOMAIN local_index
            THEN pc' = "panicked" /\ UNCHANGED db_vars
            ELSE LET record == record_into(raw)
                 IN  PopulateInsert(
                         local_numeric_id(record[1], MASTER_TABLE_VERSION,
                                          local_index[file.file_name]),
                         record[2],
                         [kind |-> "local", file_name |-> file.file_name])
    /\ UNCHANGED <<ext_vars, gefs_vars, nid_vars, MASTER_TABLE_VERSION, path_idx, local_index>>

LocalEnd ==
    /\ pc = "local_rows"
    /\ pc' = "listing"
    /\ UNCHANGED <<ext_vars, gefs_vars, nid_vars, db_vars, MASTER_TABLE_VERSION, path_idx, local_index>>

PopNext ==
    \/ PopulateStart
    \/ NextPath
    \/ EndOfListing
    \/ MasterRow
    \/ MasterEnd
    \/ LocalRow
    \/ LocalEnd

SpecPopulate == PopInit /\ [][PopNext]_vars

\* C10: during population every id built from a master-table row has
\* originating center 0xFFFF, subcenter 0xFF and local-table version 0xFF, every
\* id built from a local-table row carries the (center, subcenter) pair the
\* local index maps to the row's file name, and both carry MASTER_TABLE_VERSION.
PopulatedIdsStamped ==
    \A i \in 1..Len(calls) :
        LET id == calls[i].numeric_id
            origin == calls[i].origin
        IN  /\ origin.kind = "master" =>
                /\ originating_center(id) = U16_MAX
                /\ subcenter(id) = U8_MAX
                /\ local_table_version(id) = U8_MAX
                /\ master_table_version(id) = MASTER_TABLE_VERSION
            /\ origin.kind = "local" =>
                /\ <<originating_center(id), subcenter(id)>> = local_index[origin.file_name]
                /\ master_table_version(id) = MASTER_TABLE_VERSION

PopulatedIdsStampedWitness ==
    /\ MASTER_TABLE_VERSION # U8_MAX
    /\ \E i \in 1..Len(calls) : calls[i].origin.kind = "master"
    /\ \E i \in 1..Len(calls) :
        /\ calls[i].origin.kind = "local"
        /\ local_index[calls[i].origin.file_name][1] # U16_MAX
        /\ local_index[calls[i].origin.file_name][2] # U8_MAX

\* ------------------------------------------- population order (C11)

\* populate()'s loop over rows: the rows inserted one after the other into db,
\* and whether every insert returned Ok
RECURSIVE InsertAll(_, _)
InsertAll(db, rows) ==
    IF rows = <<>>
    THEN [db |-> db, all_ok |-> TRUE]
    ELSE LET r == insert(db, rows[1].numeric_id, rows[1].parameter)
             rest == InsertAll(r.db, Tail(rows))
         IN  [db |-> rest.db, all_ok |-> (r.result = Ok) /\ rest.all_ok]

DistinctIds ==
    \A i, j \in 1..Len(calls) : i # j => calls[i].numeric_id # calls[j].numeric_id

\* C11: when the rows inserted so far have pairwise distinct NumericIds, every
\* insert succeeded, and inserting the same rows into a new database in any
\* other order also succeeds every time and yields the same primary map and the
\* same abbreviation index.
OrderIndependent ==
    DistinctIds =>
        /\ \A i \in 1..Len(calls) : Succeeded(i)
        /\ \A perm \in Permutations(1..Len(calls)) :
               LET r == InsertAll(ParameterDatabase_new,
                                  [i \in 1..Len(calls) |-> calls[perm[i]]])
               IN  r.all_ok /\ r.db = Db

OrderIndependentWitness ==
    /\ Len(calls) = MaxCalls
    /\ DistinctIds
    /\ \E i, j \in 1..Len(calls) :
           /\ i # j
           /\ calls[i].parameter.abbrev = calls[j].parameter.abbrev
           /\ calls[i].parameter.abbrev # ""
    /\ \E i \in 1..Len(calls) : calls[i].parameter.abbrev = ""

\* ------------------------------------------------------------ chrono

\* A DateTime<Utc> is its civil fields; DateTime's order is the lexicographic
\* order of <<year, month, day, hour, minute, second>>.
IsLeapYear(year) == (year % 4 = 0 /\ year % 100 # 0) \/ year % 400 = 0

DaysInMonth(year, month) ==
    IF month = 2 THEN (IF IsLeapYear(year) THEN 29 ELSE 28)
    ELSE IF month \in {4, 6, 9, 11} THEN 30 ELSE 31

\* NaiveDate::from_ymd_opt
from_ymd_opt(year, month, day) ==
    IF month \in 1..12 /\ day >= 1 /\ day <= DaysInMonth(year, month)
    THEN Some([year |-> year, month |-> month, day |-> day])
    ELSE None

\* NaiveDate::and_hms_opt followed by and_utc
and_hms_opt(date, hour, minute, second) ==
    IF hour \in 0..23 /\ minute \in 0..59 /\ second \in 0..59
    THEN Some([year |-> date.year, month |-> date.month, day |-> date.day,
               hour |-> hour, minute |-> minute, second |-> second])
    ELSE None

\* Utc.with_ymd_and_hms: Some(dt) stands for LocalResult::Single(dt)
with_ymd_and_hms(year, month, day, hour, minute, second) ==
    LET date == from_ymd_opt(year, month, day)
    IN  IF date = None THEN None ELSE and_hms_opt(Unwrap(date), hour, minute, second)

DateTimeKey(dt) == <<dt.year, dt.month, dt.day, dt.hour, dt.minute, dt.second>>

RECURSIVE KeyLessFrom(_, _, _)
KeyLessFrom(a, b, i) ==
    IF i > Len(a) THEN FALSE
    ELSE IF a[i] # b[i] THEN a[i] < b[i]
    ELSE KeyLessFrom(a, b, i + 1)

\* a < b and a >= b on DateTime<Utc>
DateTimeLess(a, b) == KeyLessFrom(DateTimeKey(a), DateTimeKey(b), 1)
DateTimeGreaterEq(a, b) == ~DateTimeLess(a, b)

ymdh_to_datetime(year, month, day, hour) ==
    LET r == with_ymd_and_hms(year, month, day, hour, 0, 0)
    IN  IF r = None THEN [panicked |-> TRUE] ELSE Unwrap(r)

\* ------------------------------------------------- schema versions

OkOf(x) == [kind |-> "Ok", payload |-> <<x>>]
BeforeStartOfDatasetError == [kind |-> "BeforeStartOfDatasetError", payload |-> <<>>]

\* datasets/gefs/version.rs
N_VERSIONS == 4
ALL_VERSIONS == <<"V0", "V1", "V2", "V3">>

Version_start_reference_datetime(self) ==
    CASE self = "V0" -> ymdh_to_datetime(2017, 1, 1, 0)
      [] self = "V1" -> ymdh_to_datetime(2018, 7, 27, 0)
      [] self = "V2" -> ymdh_to_datetime(2020, 9, 23, 0)
      [] self = "V3" -> ymdh_to_datetime(2020, 9, 23, 12)

\* the for loop of try_from_reference_datetime from index i (0-based) on:
\* Some(version) when the loop returns, None when it runs to its end
RECURSIVE Version_scan(_, _)
Version_scan(query_datetime, i) ==
    IF i >= N_VERSIONS - 1 THEN None
    ELSE LET this_gfs_version == ALL_VERSIONS[i + 1]
             next_gfs_version == ALL_VERSIONS[i + 2]
         IN  IF /\ DateTimeGreaterEq(query_datetime,
                                     Version_start_reference_datetime(this_gfs_version))
                /\ DateTimeLess(query_datetime,
                                Version_start_reference_datetime(next_gfs_version))
             THEN Some(this_gfs_version)
             ELSE Version_scan(query_datetime, i + 1)

\* the loop with an exclusive lower bound (> in place of >=)
RECURSIVE Version_scan_exclusive(_, _)
Version_scan_exclusive(query_datetime, i) ==
    IF i >= N_VERSIONS - 1 THEN None
    ELSE IF /\ DateTimeLess(Version_start_reference_datetime(ALL_VERSIONS[i + 1]),
                            query_datetime)
            /\ DateTimeLess(query_datetime,
                            Version_start_reference_datetime(ALL_VERSIONS[i + 2]))
         THEN Some(ALL_VERSIONS[i + 1])
         ELSE Version_scan_exclusive(query_datetime, i + 1)

\* try_from_reference_datetime whose comparisons with a start are exclusive
Version_try_from_reference_datetime_exclusive(query_datetime) ==
    LET found == Version_scan_exclusive(query_datetime, 0)
        last_gfs_version == ALL_VERSIONS[N_VERSIONS]
    IN  IF found # None THEN OkOf(Unwrap(found))
        ELSE IF DateTimeLess(Version_start_reference_datetime(last_gfs_version),
                             query_datetime)
        THEN OkOf(last_gfs_version)
        ELSE BeforeStartOfDatasetError

\* try_from_reference_datetime that returns the version counted from the end
Version_try_from_reference_datetime_mirrored(query_datetime) ==
    LET found == Version_scan(query_datetime, 0)
        last_gfs_version == ALL_VERSIONS[N_VERSIONS]
        Mirror(v) == CASE v = "V0" -> "V2" [] v = "V1" -> "V1" [] v = "V2" -> "V0"
    IN  IF found # None THEN OkOf(Mirror(Unwrap(found)))
        ELSE IF DateTimeGreaterEq(query_datetime,
                                  Version_start_reference_datetime(last_gfs_version))
        THEN OkOf(last_gfs_version)
        ELSE BeforeStartOfDatasetError

Version_try_from_reference_datetime(query_datetime) ==
    LET found == Version_scan(query_datetime, 0)
        last_gfs_version == ALL_VERSIONS[N_VERSIONS]
    IN  IF found # None THEN OkOf(Unwrap(found))
        ELSE IF DateTimeGreaterEq(query_datetime,
                                  Version_start_reference_datetime(last_gfs_version))
        THEN OkOf(last_gfs_version)
        ELSE BeforeStartOfDatasetError

\* datasets/gefs.rs
N_GFS_VERSIONS == 4
ALL_GEFS_VERSIONS == <<"V1", "V2", "V3", "V4">>

GefsVersion_start_reference_datetime(self) ==
    CASE self = "V1" -> ymdh_to_datetime(2017, 1, 1, 0)
      [] self = "V2" -> ymdh_to_datetime(2018, 7, 27, 0)
      [] self = "V3" -> ymdh_to_datetime(2020, 9, 23, 0)
      [] self = "V4" -> ymdh_to_datetime(2020, 9, 23, 12)

RECURSIVE GefsVersion_scan(_, _)
GefsVersion_scan(query_datetime, i) ==
    IF i >= N_GFS_VERSIONS - 1 THEN None
    ELSE LET this_gfs_version == ALL_GEFS_VERSIONS[i + 1]
             next_gfs_version == ALL_GEFS_VERSIONS[i + 2]
         IN  IF /\ DateTimeGreaterEq(query_datetime,
                                     GefsVersion_start_reference_datetime(this_gfs_version))
                /\ DateTimeLess(query_datetime,
                                GefsVersion_start_reference_datetime(next_gfs_version))
             THEN Some(this_gfs_version)
             ELSE GefsVersion_scan(query_datetime, i + 1)

GefsVersion_try_from_reference_datetime(query_datetime) ==
    LET found == GefsVersion_scan(query_datetime, 0)
        last_gfs_version == ALL_GEFS_VERSIONS[N_GFS_VERSIONS]
    IN  IF found # None THEN OkOf(Unwrap(found))
        ELSE IF DateTimeGreaterEq(query_datetime,
                                  GefsVersion_start_reference_datetime(last_gfs_version))
        THEN OkOf(last_gfs_version)
        ELSE BeforeStartOfDatasetError

\* ---------------------------------------- the version resolver's calls

MaxResolves == 2

DateTimeOf(year, month, day, hour, minute, second) ==
    [year |-> year, month |-> month, day |-> day,
     hour |-> hour, minute |-> minute, second |-> second]

\* reference times offered to the resolver: before the dataset, each start
\* itself, the instants around each start, and a far future time
QueryDatetimes ==
    { DateTimeOf(2000, 1, 1, 0, 0, 0),    DateTimeOf(2016, 12, 31, 23, 59, 59),
      DateTimeOf(2017, 1, 1, 0, 0, 0),    DateTimeOf(2017, 1, 1, 6, 0, 0),
      DateTimeOf(2018, 7, 26, 18, 0, 0),  DateTimeOf(2018, 7, 27, 0, 0, 0),
      DateTimeOf(2020, 2, 29, 12, 0, 0),  DateTimeOf(2020, 9, 22, 18, 0, 0),
      DateTimeOf(2020, 9, 23, 0, 0, 0),   DateTimeOf(2020, 9, 23, 6, 0, 0),
      DateTimeOf(2020, 9, 23, 11, 59, 59), DateTimeOf(2020, 9, 23, 12, 0, 0),
      DateTimeOf(2024, 10, 8, 0, 0, 0),   DateTimeOf(2099, 12, 31, 18, 0, 0) }

VersionInit ==
    /\ builder = None
    /\ built_from = None
    /\ numeric_id = None
    /\ numeric_id_to_param = ParameterDatabase_new.numeric_id_to_param
    /\ abbrev_to_numeric_id = ParameterDatabase_new.abbrev_to_numeric_id
    /\ calls = <<>>
    /\ MASTER_TABLE_VERSION = U8_MAX
    /\ pc = "idle"
    /\ path_idx = 0
    /\ local_index = <<>>
    /\ resolutions = <<>>
    /\ encoded = None
    /\ decoded = None
    /\ ExtIdle

VersionTryFromReferenceDatetime ==
    /\ Len(resolutions) < MaxResolves
    /\ \E query_datetime \in QueryDatetimes :
           resolutions' = Append(resolutions,
               [resolver |-> "Version", query_datetime |-> query_datetime,
                result |-> Version_try_from_reference_datetime(query_datetime)])
    /\ UNCHANGED <<ext_vars, nid_vars, db_vars, pop_vars, encoded, decoded>>

GefsVersionTryFromReferenceDatetime ==
    /\ Len(resolutions) < MaxResolves
    /\ \E query_datetime \in QueryDatetimes :
           resolutions' = Append(resolutions,
               [resolver |-> "GefsVersion", query_datetime |-> query_datetime,
                result |-> GefsVersion_try_from_reference_datetime(query_datetime)])
    /\ UNCHANGED <<ext_vars, nid_vars, db_vars, pop_vars, encoded, decoded>>

VersionNext == VersionTryFromReferenceDatetime \/ GefsVersionTryFromReferenceDatetime

SpecVersion == VersionInit /\ [][VersionNext]_vars

\* the versions of the resolver a call went to, in declaration order, and
\* their start times
VersionsOf(c) == IF c.resolver = "Version" THEN ALL_VERSIONS ELSE ALL_GEFS_VERSIONS
StartOf(c, v) ==
    IF c.resolver = "Version"
    THEN Version_start_reference_datetime(v)
    ELSE GefsVersion_start_reference_datetime(v)

\* C12: every call of the resolver returned the version with the greatest start
\* time at or before the reference time (a start resolves to its own version),
\* the last version for every time at or after the last start, and
\* BeforeStartOfDatasetError exactly for the times before the earliest start.
ResolvesToGreatestStart ==
    \A i \in 1..Len(resolutions) :
        LET c == resolutions[i]
            t == c.query_datetime
            all == VersionsOf(c)
            started == { k \in 1..Len(all) : ~DateTimeLess(t, StartOf(c, all[k])) }
        IN  /\ (c.result = BeforeStartOfDatasetError) <=> DateTimeLess(t, StartOf(c, all[1]))
            /\ started # {} =>
                  \E k \in started :
                      /\ c.result = OkOf(all[k])
                      /\ \A j \in started :
                             ~DateTimeLess(StartOf(c, all[k]), StartOf(c, all[j]))
            /\ ~DateTimeLess(t, StartOf(c, all[Len(all)])) => c.result = OkOf(all[Len(all)])
            /\ started = {} => c.result = BeforeStartOfDatasetError

ResolvesToGreatestStartWitness ==
    /\ \E i \in 1..Len(resolutions) :
           /\ resolutions[i].resolver = "Version"
           /\ resolutions[i].query_datetime = Version_start_reference_datetime("V2")
           /\ resolutions[i].result = OkOf("V2")
    /\ \E i \in 1..Len(resolutions) :
           /\ resolutions[i].query_datetime = DateTimeOf(2016, 12, 31, 23, 59, 59)
           /\ resolutions[i].result = BeforeStartOfDatasetError

\* C13: of two calls of a resolver that both resolved, the one with the
\* earlier reference time resolved to a version whose start is not later; and
\* two calls with the same reference time returned the same result wherever
\* they stand in the history of calls.
ResolverMonotonicStateless ==
    \A i, j \in 1..Len(resolutions) :
        LET a == resolutions[i]
            b == resolutions[j]
        IN  a.resolver = b.resolver =>
              /\ ( /\ DateTimeLess(a.query_datetime, b.query_datetime)
                   /\ a.result.kind = "Ok"
                   /\ b.result.kind = "Ok" )
                     => ~DateTimeLess(StartOf(b, b.result.payload[1]),
                                      StartOf(a, a.result.payload[1]))
              /\ a.query_datetime = b.query_datetime => a.result = b.result

ResolverMonotonicStatelessWitness ==
    /\ Len(resolutions) = 2
    /\ resolutions[1].resolver = resolutions[2].resolver
    /\ DateTimeLess(resolutions[2].query_datetime, resolutions[1].query_datetime)
    /\ resolutions[1].result.kind = "Ok"
    /\ resolutions[2].result.kind = "Ok"
    /\ resolutions[1].result # resolutions[2].result

\* ------------------------------------------------- strings and paths

\* A string that the code formats or parses is a sequence of one-character
\* strings; an object_store Path is the sequence of its parts.
DigitChars == <<"0", "1", "2", "3", "4", "5", "6", "7", "8", "9">>
IsDigit(ch) == \E k \in 1..10 : DigitChars[k] = ch
DigitValue(ch) == (CHOOSE k \in 1..10 : DigitChars[k] = ch) - 1

\* the decimal digits of n >= 0, most significant first
RECURSIVE to_string(_)
to_string(n) ==
    IF n < 10 THEN <<DigitChars[n + 1]>>
    ELSE to_string(n \div 10) \o <<DigitChars[(n % 10) + 1]>>

RECURSIVE Zeros(_)
Zeros(k) == IF k <= 0 THEN <<>> ELSE <<"0">> \o Zeros(k - 1)

\* format!("{:0width$}", n): the sign, when n < 0, then zeros up to width
\* characters in all, then the digits
format_zero_padded(n, width) ==
    IF n >= 0
    THEN Zeros(width - Len(to_string(n))) \o to_string(n)
    ELSE <<"-">> \o Zeros(width - 1 - Len(to_string(0 - n))) \o to_string(0 - n)

\* str::ends_with
ends_with(str, suffix) ==
    /\ Len(str) >= Len(suffix)
    /\ SubSeq(str, Len(str) - Len(suffix) + 1, Len(str)) = suffix

\* str::starts_with
starts_with(str, prefix) ==
    /\ Len(str) >= Len(prefix)
    /\ SubSeq(str, 1, Len(prefix)) = prefix

\* Path::from_iter: parts that are empty are dropped
RECURSIVE Path_from_iter(_)
Path_from_iter(parts) ==
    IF parts = <<>> THEN <<>>
    ELSE (IF parts[1] = <<>> THEN <<>> ELSE <<parts[1]>>) \o Path_from_iter(Tail(parts))

\* Path::to_string: the parts joined by the delimiter
RECURSIVE Path_to_string(_)
Path_to_string(path) ==
    IF path = <<>> THEN <<>>
    ELSE IF Len(path) = 1 THEN path[1]
    ELSE path[1] \o <<"/">> \o Path_to_string(Tail(path))

\* ------------------------------------------------------------ encode

\* DateTime::format("gefs.%Y%m%d"), for the years 0..9999 that %Y writes as
\* four digits
format_gefs_date(dt) ==
    <<"g", "e", "f", "s", ".">> \o format_zero_padded(dt.year, 4)
        \o format_zero_padded(dt.month, 2) \o format_zero_padded(dt.day, 2)

\* A TimeDelta is a number of seconds; num_hours truncates towards zero.
TimeDelta_hours(h) == h * 3600
TimeDelta_zero == 0
num_hours(delta) == IF delta >= 0 THEN delta \div 3600 ELSE 0 - ((0 - delta) \div 3600)

\* the third part of the path, shared by to_idx_path and to_idx_location
file_name_part(ensemble_member, init_hour, forecast_step) ==
    LET step == IF forecast_step = TimeDelta_zero
                THEN <<"a", "n", "l">>
                ELSE <<"f">> \o format_zero_padded(num_hours(forecast_step), 3)
    IN  ensemble_member \o <<".", "t">> \o init_hour
            \o <<"z", ".", "p", "g", "r", "b", "2", "a">> \o step

\* to_idx_path that writes the forecast step without padding
to_idx_path_unpadded(reference_datetime, parameter, vertical_level, forecast_step, ensemble_member) ==
    IF ensemble_member = None
    THEN [panicked |-> TRUE, path |-> <<>>]
    ELSE LET init_hour == format_zero_padded(reference_datetime.hour, 2)
             step == IF forecast_step = TimeDelta_zero
                     THEN <<"a", "n", "l">>
                     ELSE <<"f">> \o to_string(num_hours(forecast_step))
         IN  [panicked |-> FALSE,
              path |-> Path_from_iter(<<format_gefs_date(reference_datetime), init_hour,
                          Unwrap(ensemble_member) \o <<".", "t">> \o init_hour
                              \o <<"z", ".", "p", "g", "r", "b", "2", "a">> \o step>>)]

\* Gefs::to_idx_path of the hypergrib crate: [panicked, path]; it panics when
\* there is no ensemble member (the expect of line 40)
to_idx_path(reference_datetime, parameter, vertical_level, forecast_step, ensemble_member) ==
    IF ensemble_member = None
    THEN [panicked |-> TRUE, path |-> <<>>]
    ELSE LET init_hour == format_zero_padded(reference_datetime.hour, 2)
         IN  [panicked |-> FALSE,
              path |-> Path_from_iter(<<format_gefs_date(reference_datetime), init_hour,
                          file_name_part(Unwrap(ensemble_member), init_hour, forecast_step)>>)]

\* Gefs::to_idx_location of the hypergrib_idx_parser crate: the ensemble
\* member is a number, 0 being the control member
to_idx_location(init_datetime, product, level, step, ens_member) ==
    IF ens_member = None
    THEN [panicked |-> TRUE, path |-> <<>>]
    ELSE LET init_hour == format_zero_padded(init_datetime.hour, 2)
             ensemble_member ==
                 IF Unwrap(ens_member) = 0
                 THEN <<"g", "e", "c", "0", "0">>
                 ELSE <<"g", "e", "f">> \o format_zero_padded(Unwrap(ens_member), 2)
         IN  [panicked |-> FALSE,
              path |-> Path_from_iter(<<format_gefs_date(init_datetime), init_hour,
                          file_name_part(ensemble_member, init_hour, step)>>)]

\* ------------------------------------------------------------ decode

BUCKET_ID == <<"n", "o", "a", "a", "-", "g", "e", "f", "s", "-", "p", "d", "s">>
N_PARTS_EXPECTED == {4, 5, 6}
DotIdx == <<".", "i", "d", "x">>
GefsDot == <<"g", "e", "f", "s", ".">>

\* the value of a non-empty sequence of digits
RECURSIVE DigitsValue(_)
DigitsValue(digits) ==
    IF Len(digits) = 1 THEN DigitValue(digits[1])
    ELSE DigitsValue(SubSeq(digits, 1, Len(digits) - 1)) * 10 + DigitValue(digits[Len(digits)])

\* how many of the first max characters of str are leading digits
RECURSIVE LeadingDigits(_, _)
LeadingDigits(str, max) ==
    IF max = 0 \/ str = <<>> \/ ~IsDigit(str[1]) THEN 0
    ELSE 1 + LeadingDigits(Tail(str), max - 1)

\* chrono's scan::number(s, 1, max): the longest run of 1..max leading digits
\* and the rest of the string, or None when s does not start with a digit
scan_number(str, max) ==
    LET n == LeadingDigits(str, max)
    IN  IF n = 0 THEN None
        ELSE Some([value |-> DigitsValue(SubSeq(str, 1, n)),
                   rest |-> SubSeq(str, n + 1, Len(str))])

\* NaiveDate::parse_from_str(str, "gefs.%Y%m%d") for strings without spaces or
\* sign characters: Some(date), or None for a chrono::ParseError
NaiveDate_parse_from_str(str) ==
    IF ~starts_with(str, GefsDot) THEN None
    ELSE LET year == scan_number(SubSeq(str, Len(GefsDot) + 1, Len(str)), 4)
         IN  IF year = None THEN None
             ELSE LET month == scan_number(Unwrap(year).rest, 2)
                  IN  IF month = None THEN None
                      ELSE LET day == scan_number(Unwrap(month).rest, 2)
                           IN  IF day = None THEN None
                               ELSE IF Unwrap(day).rest # <<>> THEN None
                               ELSE from_ymd_opt(Unwrap(year).value, Unwrap(month).value,
                                                 Unwrap(day).value)

\* str::parse::<u32> for strings of at most nine digits: Some(n), or None for
\* a ParseIntError
parse_u32(str) ==
    LET digits == IF str # <<>> /\ str[1] = "+" THEN Tail(str) ELSE str
    IN  IF digits = <<>> \/ \E k \in 1..Len(digits) : ~IsDigit(digits[k])
        THEN None
        ELSE Some(DigitsValue(digits))

Panic == [kind |-> "panic", payload |-> <<>>]
Err(e) == [kind |-> "Err", payload |-> <<e>>]
GefsIdxError(error, path) ==
    [type |-> "GefsIdxError", error |-> error, path |-> Path_to_string(path)]

\* GefsIdxPath::try_from: indexing parts[0] of a path without parts panics
GefsIdxPath_try_from(idx_path) ==
    LET parts == idx_path
        n_parts == Len(parts)
    IN  IF parts = <<>>
        THEN Panic
        ELSE IF parts[1] # BUCKET_ID
        THEN Err(GefsIdxError("GEFS path must start with 'noaa-gefs-pds'.", idx_path))
        ELSE IF n_parts \notin N_PARTS_EXPECTED
        THEN Err(GefsIdxError("Expected [4, 5, 6] parts in the path of the idx file.", idx_path))
        ELSE IF ~ends_with(parts[n_parts], DotIdx)
        THEN Err(GefsIdxError("The path must end with '.idx'!", idx_path))
        ELSE OkOf([path |-> idx_path, parts |-> parts])

\* extract_reference_datetime that accepts every hour the token spells
extract_reference_datetime_any_hour(self) ==
    LET date == NaiveDate_parse_from_str(self.parts[2])
    IN  IF date = None THEN Err([type |-> "chrono::ParseError"])
        ELSE LET hour == parse_u32(self.parts[3])
             IN  IF hour = None THEN Err([type |-> "ParseIntError"])
                 ELSE OkOf([year |-> Unwrap(date).year, month |-> Unwrap(date).month,
                            day |-> Unwrap(date).day, hour |-> Unwrap(hour),
                            minute |-> 0, second |-> 0])

\* extract_reference_datetime that reads the hour from the part after the hour
extract_reference_datetime_shifted(self) ==
    LET date == NaiveDate_parse_from_str(self.parts[2])
    IN  IF date = None THEN Err([type |-> "chrono::ParseError"])
        ELSE LET hour == parse_u32(self.parts[4])
             IN  IF hour = None THEN Err([type |-> "ParseIntError"])
                 ELSE LET dt == and_hms_opt(Unwrap(date), Unwrap(hour), 0, 0)
                      IN  IF dt # None THEN OkOf(Unwrap(dt))
                          ELSE Err(GefsIdxError("Invalid hour when parsing path of idx",
                                                self.path))

\* GefsIdxPath::extract_reference_datetime: the two `?` pass on the parser's
\* own error, which holds no path
extract_reference_datetime(self) ==
    LET date == NaiveDate_parse_from_str(self.parts[2])
    IN  IF date = None THEN Err([type |-> "chrono::ParseError"])
        ELSE LET hour == parse_u32(self.parts[3])
             IN  IF hour = None THEN Err([type |-> "ParseIntError"])
                 ELSE LET dt == and_hms_opt(Unwrap(date), Unwrap(hour), 0, 0)
                      IN  IF dt # None THEN OkOf(Unwrap(dt))
                          ELSE Err(GefsIdxError("Invalid hour when parsing path of idx",
                                                self.path))

\* the decoder as extract_from_idx_paths runs it:
\* GefsIdxPath::try_from(&meta.location)?.extract_reference_datetime()?
decode(location) ==
    LET gefs_idx_path == GefsIdxPath_try_from(location)
    IN  IF gefs_idx_path.kind # "Ok" THEN gefs_idx_path
        ELSE extract_reference_datetime(gefs_idx_path.payload[1])

\* with_context: the error with a message that holds the path
error_context(str, path) == [type |-> "anyhow::Error", error |-> str, path |-> Path_to_string(path)]

\* path_to_reference_datetime of the hypergrib_indexer crate
path_to_reference_datetime(path) ==
    LET parts == SubSeq(path, 1, IF Len(path) < 2 THEN Len(path) ELSE 2)
    IN  IF Len(parts) < 1 THEN Panic
        ELSE LET date == NaiveDate_parse_from_str(parts[1])
             IN  IF date = None
                 THEN Err(error_context("Failed to convert date component of NWP reference datetime", path))
                 ELSE IF Len(parts) < 2 THEN Panic
                 ELSE LET hour == parse_u32(parts[2])
                      IN  IF hour = None
                          THEN Err(error_context("Hour of the NWP init could not be parsed into a u32", path))
                          ELSE LET dt == and_hms_opt(Unwrap(date), Unwrap(hour), 0, 0)
                               IN  IF dt # None THEN OkOf(Unwrap(dt))
                                   ELSE Err(error_context("Invalid NWP reference hour", path))

\* --------------------------------------------- the codec's calls

\* arguments offered to to_idx_path and to_idx_location: one reference time
\* within each schema version
ReferenceDatetimes ==
    { DateTimeOf(2017, 1, 1, 0, 0, 0),  DateTimeOf(2017, 12, 31, 18, 0, 0),
      DateTimeOf(2018, 7, 27, 6, 0, 0), DateTimeOf(2020, 9, 23, 0, 0, 0),
      DateTimeOf(2024, 10, 8, 18, 0, 0) }
ParameterNames == {"HGT", "TMP"}
VerticalLevels == {"10 mb", "surface"}
ForecastSteps == {TimeDelta_zero, TimeDelta_hours(6), TimeDelta_hours(384)}
Gec00 == <<"g", "e", "c", "0", "0">>
EnsembleMembers == {None, Some(Gec00), Some(<<"g", "e", "p", "0", "1">>)}
EnsMembers == {None, Some(0), Some(1)}

\* date parts offered to the decoders: valid dates, 29 February of a common
\* year, a date one digit short, and a wrong prefix
DateTokens ==
    { <<"g", "e", "f", "s", ".", "2", "0", "1", "7", "0", "1", "0", "1">>,
      <<"g", "e", "f", "s", ".", "2", "0", "2", "0", "0", "2", "2", "9">>,
      <<"g", "e", "f", "s", ".", "2", "0", "1", "9", "0", "2", "2", "9">>,
      <<"g", "e", "f", "s", ".", "2", "0", "1", "7", "0", "1", "1">>,
      <<"g", "f", "s", ".", "2", "0", "1", "7", "0", "1", "0", "1">> }
\* hour parts: in range, out of range, one digit, not a number
HourTokens ==
    { <<"0", "0">>,
      <<"1", "8">>,
      <<"2", "3">>,
      <<"2", "4">>,
      <<"6">>,
      <<"a", "b">> }
FileIdx == <<"g", "e", "c", "0", "0", ".", "t", "0", "0", "z", ".", "p", "g", "r", "b", "2", "a", "a", "n", "l", ".", "i", "d", "x">>
FileNoIdx == <<"g", "e", "c", "0", "0", ".", "t", "0", "0", "z", ".", "p", "g", "r", "b", "2", "a", "a", "n", "l">>
OtherBucket == <<"n", "o", "a", "a", "-", "g", "f", "s", "-", "b", "d", "p", "-", "p", "d", "s">>
\* the directories between the hour and the file in the layouts of V0, V1 and V3
Layouts == { <<>>, <<<<"p", "g", "r", "b", "2", "a">>>>, <<<<"a", "t", "m", "o", "s">>, <<"p", "g", "r", "b", "2", "a", "p", "5">>>> }

\* locations offered to GefsIdxPath::try_from: every combination of bucket,
\* date, hour, layout and file, and paths with too few or too many parts
IdxLocations ==
    { <<bucket, date, hour>> \o layout \o <<file>> :
          bucket \in {BUCKET_ID, OtherBucket}, date \in DateTokens, hour \in HourTokens,
          layout \in Layouts, file \in {FileIdx, FileNoIdx} }
    \cup { <<>>, <<BUCKET_ID>>, <<OtherBucket>>, <<BUCKET_ID, FileIdx>>,
            <<BUCKET_ID, GefsDot \o <<"2", "0", "1", "7", "0", "1", "0", "1">>, <<"0", "0">>,
              <<"a">>, <<"b">>, <<"c">>, FileIdx>> }

\* prefixes offered to path_to_reference_datetime
Prefixes ==
    { <<date, hour>> : date \in DateTokens, hour \in HourTokens }
    \cup { <<>> } \cup { <<date>> : date \in DateTokens }

CodecInit ==
    /\ builder = None
    /\ built_from = None
    /\ numeric_id = None
    /\ numeric_id_to_param = ParameterDatabase_new.numeric_id_to_param
    /\ abbrev_to_numeric_id = ParameterDatabase_new.abbrev_to_numeric_id
    /\ calls = <<>>
    /\ MASTER_TABLE_VERSION = U8_MAX
    /\ pc = "idle"
    /\ path_idx = 0
    /\ local_index = <<>>
    /\ resolutions = <<>>
    /\ encoded = None
    /\ decoded = None
    /\ ExtIdle

ToIdxPath ==
    /\ \E reference_datetime \in ReferenceDatetimes, parameter \in ParameterNames,
          vertical_level \in VerticalLevels, forecast_step \in ForecastSteps,
          ensemble_member \in EnsembleMembers :
           encoded' = Some([encoder |-> "to_idx_path",
                            reference_datetime |-> reference_datetime,
                            parameter |-> parameter,
                            vertical_level |-> vertical_level,
                            forecast_step |-> forecast_step,
                            ensemble_member |-> ensemble_member,
                            result |-> to_idx_path(reference_datetime, parameter,
                                          vertical_level, forecast_step, ensemble_member)])
    /\ UNCHANGED <<ext_vars, nid_vars, db_vars, pop_vars, resolutions, decoded>>

ToIdxLocation ==
    /\ \E init_datetime \in ReferenceDatetimes, step \in ForecastSteps,
          ens_member \in EnsMembers :
           encoded' = Some([encoder |-> "to_idx_location",
                            reference_datetime |-> init_datetime,
                            parameter |-> "HGT",
                            vertical_level |-> "10 mb",
                            forecast_step |-> step,
                            ensemble_member |-> ens_member,
                            result |-> to_idx_location(init_datetime, "HGT", "10 mb",
                                                       step, ens_member)])
    /\ UNCHANGED <<ext_vars, nid_vars, db_vars, pop_vars, resolutions, decoded>>

\* the body of the loop of extract_from_idx_paths for one listed location
DecodeLocation ==
    /\ \E location \in IdxLocations :
           decoded' = Some([decoder |-> "GefsIdxPath", path |-> location,
                            result |-> decode(location)])
    /\ UNCHANGED <<ext_vars, nid_vars, db_vars, pop_vars, resolutions, encoded>>

\* the decoder given the path that the last encode call returned
DecodeEncoded ==
    /\ encoded # None
    /\ ~Unwrap(encoded).result.panicked
    /\ decoded' = Some([decoder |-> "GefsIdxPath", path |-> Unwrap(encoded).result.path,
                        result |-> decode(Unwrap(encoded).result.path)])
    /\ UNCHANGED <<ext_vars, nid_vars, db_vars, pop_vars, resolutions, encoded>>

\* the body of the loop of get_reference_datetimes for one listed prefix
PathToReferenceDatetime ==
    /\ \E prefix \in Prefixes :
           decoded' = Some([decoder |-> "path_to_reference_datetime", path |-> prefix,
                            result |-> path_to_reference_datetime(prefix)])
    /\ UNCHANGED <<ext_vars, nid_vars, db_vars, pop_vars, resolutions, encoded>>

EncodeNext ==
    \/ ToIdxPath
    \/ ToIdxLocation
    \/ DecodeEncoded

\* encoding, and decoding what was encoded
SpecEncode == CodecInit /\ [][EncodeNext]_vars

DecodeNext ==
    \/ DecodeLocation
    \/ PathToReferenceDatetime

\* decoding listed locations
SpecDecode == CodecInit /\ [][DecodeNext]_vars

\* ------------------------------------------------ claims on the codec

Enc == Unwrap(encoded)
Dec == Unwrap(decoded)

\* C14: decoding the path that to_idx_path returned for a tuple succeeds and
\* returns the tuple's reference datetime.
CodecRoundTrip ==
    ( /\ encoded # None
      /\ decoded # None
      /\ Enc.encoder = "to_idx_path"
      /\ ~Enc.result.panicked
      /\ Dec.decoder = "GefsIdxPath"
      /\ Dec.path = Enc.result.path )
        => Dec.result = OkOf(Enc.reference_datetime)

AllDigits(str) == \A k \in 1..Len(str) : IsDigit(str[k])

\* str is the number n written in exactly width digits, or in more when n
\* does not fit
IsPadded(str, n, width) ==
    /\ str # <<>>
    /\ AllDigits(str)
    /\ Len(str) >= width
    /\ (Len(str) > width => str[1] # "0")
    /\ DigitsValue(str) = n

TZ == <<".", "t">>
ZPgrb2a == <<"z", ".", "p", "g", "r", "b", "2", "a">>
Anl == <<"a", "n", "l">>
GecF006 == <<"g", "e", "c", "0", "0", ".", "t", "0", "0", "z", ".", "p", "g", "r", "b", "2", "a", "f", "0", "0", "6">>

\* C15: for a reference time of the earliest schema version, an ensemble token
\* E and a step of h whole hours, to_idx_path returns the three parts
\* gefs.YYYYMMDD, HH and E.tHHz.pgrb2af<hhh> (pgrb2aanl for the zero step),
\* whatever the parameter and the vertical level; 2017-01-01T00, gec00 and 6
\* hours give the last part gec00.t00z.pgrb2af006, from to_idx_location too.
EarliestVersionLayout ==
    ( /\ encoded # None
      /\ Version_try_from_reference_datetime(Enc.reference_datetime) = OkOf("V0")
      /\ Enc.ensemble_member # None
      /\ Enc.forecast_step % 3600 = 0 )
        => LET path == Enc.result.path
               dt == Enc.reference_datetime
               h == Enc.forecast_step \div 3600
               control == IF Enc.encoder = "to_idx_path"
                          THEN Enc.ensemble_member = Some(Gec00)
                          ELSE Enc.ensemble_member = Some(0)
           IN  /\ ~Enc.result.panicked
               /\ Len(path) = 3
               /\ Len(path[1]) = 13
               /\ SubSeq(path[1], 1, 5) = GefsDot
               /\ IsPadded(SubSeq(path[1], 6, 9), dt.year, 4)
               /\ IsPadded(SubSeq(path[1], 10, 11), dt.month, 2)
               /\ IsPadded(SubSeq(path[1], 12, 13), dt.day, 2)
               /\ IsPadded(path[2], dt.hour, 2)
               /\ Enc.encoder = "to_idx_path" =>
                     /\ \E suffix \in {Anl} \cup { <<"f">> \o SubSeq(path[3], Len(path[3]) - 2, Len(path[3])) } :
                            /\ path[3] = Unwrap(Enc.ensemble_member) \o TZ \o path[2] \o ZPgrb2a \o suffix
                            /\ (suffix = Anl) <=> (h = 0)
                            /\ suffix # Anl => IsPadded(Tail(suffix), h, 3)
                     /\ \A parameter \in ParameterNames, vertical_level \in VerticalLevels :
                            to_idx_path(dt, parameter, vertical_level, Enc.forecast_step,
                                        Enc.ensemble_member) = Enc.result
               /\ (control /\ dt = DateTimeOf(2017, 1, 1, 0, 0, 0) /\ h = 6)
                     => path[3] = GecF006

EarliestVersionLayoutWitness ==
    /\ encoded # None
    /\ Enc.encoder = "to_idx_path"
    /\ Enc.reference_datetime = DateTimeOf(2017, 1, 1, 0, 0, 0)
    /\ Enc.ensemble_member = Some(Gec00)
    /\ Enc.forecast_step = TimeDelta_hours(6)
    /\ Enc.result.path[3] = GecF006

\* C20: to_idx_path returns a path in the layout of the version that the
\* resolver selects for the reference datetime: three parts for V0, four with
\* a pgrb2a or pgrb2b directory for V1 and V2, five with an atmos directory for V3.
EncodeUsesResolvedLayout ==
    ( /\ encoded # None
      /\ Enc.encoder = "to_idx_path"
      /\ ~Enc.result.panicked )
        => LET path == Enc.result.path
               version == Version_try_from_reference_datetime(Enc.reference_datetime)
           IN  /\ version = OkOf("V0") => Len(path) = 3
               /\ version \in {OkOf("V1"), OkOf("V2")} =>
                      /\ Len(path) = 4
                      /\ path[3] \in {<<"p", "g", "r", "b", "2", "a">>, <<"p", "g", "r", "b", "2", "b">>}
               /\ version = OkOf("V3") =>
                      /\ Len(path) = 5
                      /\ path[3] = <<"a", "t", "m", "o", "s">>

\* the date part gefs.YYYYMMDD of a valid calendar date, and the date it spells
IsValidDateToken(str) ==
    /\ Len(str) = 13
    /\ SubSeq(str, 1, 5) = GefsDot
    /\ AllDigits(SubSeq(str, 6, 13))
    /\ LET month == DigitsValue(SubSeq(str, 10, 11))
           day == DigitsValue(SubSeq(str, 12, 13))
       IN  /\ month \in 1..12
           /\ day \in 1..DaysInMonth(DigitsValue(SubSeq(str, 6, 9)), month)

IsNumber(str) == str # <<>> /\ AllDigits(str)

GefsIdxDecoded == decoded # None /\ Dec.decoder = "GefsIdxPath"

\* C16: a location of 4, 5 or 6 parts that starts with the bucket, ends in .idx,
\* has the date part gefs.YYYYMMDD of a valid calendar date and an hour part H
\* in 0..23 decodes to YYYY-MM-DD T H:00:00;
\* noaa-gefs-pds/gefs.20170101/00/gec00.t00z.pgrb2aanl.idx gives 2017-01-01T00:00:00.
DecodesValidLocations ==
    ( /\ GefsIdxDecoded
      /\ Len(Dec.path) \in {4, 5, 6}
      /\ Dec.path[1] = BUCKET_ID
      /\ ends_with(Dec.path[Len(Dec.path)], DotIdx)
      /\ IsValidDateToken(Dec.path[2])
      /\ IsNumber(Dec.path[3])
      /\ DigitsValue(Dec.path[3]) \in 0..23 )
        => /\ Dec.result = OkOf(DateTimeOf(DigitsValue(SubSeq(Dec.path[2], 6, 9)),
                                           DigitsValue(SubSeq(Dec.path[2], 10, 11)),
                                           DigitsValue(SubSeq(Dec.path[2], 12, 13)),
                                           DigitsValue(Dec.path[3]), 0, 0))
           /\ Dec.path = <<BUCKET_ID, GefsDot \o <<"2", "0", "1", "7", "0", "1", "0", "1">>,
                           <<"0", "0">>, FileIdx>>
                 => Dec.result = OkOf(DateTimeOf(2017, 1, 1, 0, 0, 0))

DecodesValidLocationsWitness ==
    /\ GefsIdxDecoded
    /\ Len(Dec.path) = 6
    /\ Dec.result = OkOf(DateTimeOf(2020, 2, 29, 18, 0, 0))

\* C17: a location whose first part is not the bucket, or whose last part does
\* not end in .idx, or whose hour part is a number outside 0..23, decodes to an
\* error: neither a reference datetime nor a panic.
BadLocationsAreErrors ==
    ( /\ GefsIdxDecoded
      /\ Dec.path # <<>>
      /\ \/ Dec.path[1] # BUCKET_ID
         \/ ~ends_with(Dec.path[Len(Dec.path)], DotIdx)
         \/ /\ Len(Dec.path) >= 3
            /\ IsNumber(Dec.path[3])
            /\ DigitsValue(Dec.path[3]) \notin 0..23 )
        => Dec.result.kind = "Err"

BadLocationsAreErrorsWitness ==
    /\ GefsIdxDecoded
    /\ Len(Dec.path) = 5
    /\ Dec.path[1] = BUCKET_ID
    /\ ends_with(Dec.path[5], DotIdx)
    /\ IsValidDateToken(Dec.path[2])
    /\ Dec.path[3] = <<"2", "4">>
    /\ Dec.result.kind = "Err"

\* C18: the decoders return Ok or Err for every path, the empty path and the
\* paths with fewer parts than they index included; they never panic.
DecodeNeverPanics ==
    decoded # None => Dec.result.kind \in {"Ok", "Err"}

\* C19: every error the decoder returns holds the path it was given and a
\* reason, whether the failure is structural (bucket, number of parts, suffix)
\* or semantic (date part, hour that is not a number, hour outside 0..23).
ErrorsCarryPath ==
    ( /\ GefsIdxDecoded
      /\ Dec.result.kind = "Err" )
        => LET e == Dec.result.payload[1]
           IN  /\ "path" \in DOMAIN e
               /\ "error" \in DOMAIN e
               /\ e.path = Path_to_string(Dec.path)

\* ------------------------------------------- failed inserts (C30)

\* C30: an insert call that returns an error leaves the primary map and the
\* abbreviation index as they were before the call.
FailedInsertChangesNothing ==
    [][(IsInsertStep /\ ThisCall.result.kind # "Ok")
          => /\ numeric_id_to_param' = numeric_id_to_param
             /\ abbrev_to_numeric_id' = abbrev_to_numeric_id]_vars

\* ------------------------------------------- populate aborts (C27)

\* what populate(mut self) has returned: Ok(self) at the end of the listing,
\* an error after a failed insert or an unrecognised file name (self is
\* dropped), nothing while it runs or after a panic
populate_returned ==
    IF pc = "done" THEN OkOf(Db)
    ELSE IF pc = "failed" THEN Err("anyhow::Error")
    ELSE None

\* C27: when an insert fails during populate, or a file name is not
\* recognised, populate has stopped there and returned an error: the failed
\* insert is the last one made, no step follows, and a database is returned
\* only when every insert succeeded.
PopulateAbortsOnFailure ==
    /\ []( /\ \A i \in 1..Len(calls) :
                  ~Succeeded(i) => (i = Len(calls) /\ pc = "failed")
           /\ (path_idx > 0 /\ CsvFiles[path_idx].kind = "none") => pc = "failed"
           /\ pc = "failed" => populate_returned = Err("anyhow::Error")
           /\ populate_returned # None /\ populate_returned.kind = "Ok" =>
                  \A i \in 1..Len(calls) : Succeeded(i) )
    /\ [][pc # "failed"]_vars

PopulateAbortsOnFailureWitness ==
    /\ pc = "failed"
    /\ Len(calls) >= 2
    /\ Len(calls) < MaxCalls
    /\ Succeeded(1)
    /\ ~Succeeded(Len(calls))
    /\ path_idx < Len(CsvFiles)

\* ------------------------------------------- the table-row iterator

NameMissing == <<"M", "i", "s", "s", "i", "n", "g">>

\* the rows a GDAL table can hold
TableRecords ==
    [prod : {None}, cat : {None}, subcat : {-1, 0, 1}, short_name : {"", "TMP"},
     name : {NameTemperature, NameReserved, NameMissing}, unit : {"K"}]

MaxRows == 3

TableInit ==
    /\ builder = None
    /\ built_from = None
    /\ numeric_id = None
    /\ numeric_id_to_param = ParameterDatabase_new.numeric_id_to_param
    /\ abbrev_to_numeric_id = ParameterDatabase_new.abbrev_to_numeric_id
    /\ calls = <<>>
    /\ MASTER_TABLE_VERSION \in MasterTableVersions
    /\ pc = "idle"
    /\ path_idx = 0
    /\ local_index = <<>>
    /\ resolutions = <<>>
    /\ encoded = None
    /\ decoded = None
    /\ ExtIdle

\* gdal_master_table_4_2_iterator(0, 0): the reader deserializes the next row,
\* the filter keeps or drops it, and the map closure converts a kept row
IteratorNext ==
    /\ Len(rows_read) < MaxRows
    /\ \E record \in TableRecords :
        /\ rows_read' = Append(rows_read, record)
        /\ yielded' = IF record_is_kept(record)
                       THEN Append(yielded, master_record_into(record, 0, 0))
                       ELSE yielded
    /\ UNCHANGED <<nid_vars, db_vars, pop_vars, gefs_vars, man_vars, agg_vars, lim_vars>>

TableNext == IteratorNext

SpecTable == TableInit /\ [][TableNext]_vars

\* the rows the iterator is to yield
ShouldYield(row) ==
    LET lc == to_lowercase(row.name)
    IN  /\ row.subcat >= 0
        /\ \A i \in 1..(Len(lc) - 7) :
              SubSeq(lc, i, i + 7) # <<"r", "e", "s", "e", "r", "v", "e", "d">>
        /\ \A i \in 1..(Len(lc) - 6) :
              SubSeq(lc, i, i + 6) # <<"m", "i", "s", "s", "i", "n", "g">>

\* C28: the iterator yields exactly the rows whose sub-category number is >= 0
\* and whose lower-cased name contains neither "reserved" nor "missing", in
\* their source order, each with its abbreviation, name and unit unchanged.
TableRowsFiltered ==
    LET kept == SelectSeq(rows_read, ShouldYield)
    IN  /\ Len(yielded) = Len(kept)
        /\ \A i \in 1..Len(kept) :
              /\ yielded[i][2] = [abbrev |-> kept[i].short_name, name |-> kept[i].name,
                                  unit |-> kept[i].unit]
              /\ yielded[i][1].parameter_number = kept[i].subcat

TableRowsFilteredWitness ==
    /\ Len(rows_read) = 3
    /\ ShouldYield(rows_read[1]) /\ rows_read[1].short_name = ""
    /\ rows_read[2].subcat >= 0 /\ ~ShouldYield(rows_read[2])
    /\ ShouldYield(rows_read[3]) /\ rows_read[3] # rows_read[1]
    /\ Len(yielded) = 2

\* ------------------------------------------------------- the Manifest

\* An Arc<Path> is the path with the allocation that holds it. Two Arcs are
\* equal for the HashSet when their paths are equal, whatever the allocation.
Arc_new(path, ptr) == [ptr |-> ptr, path |-> path]

\* HashSet<Arc<Path>>::get
HashSet_get(set, path) ==
    IF \E pa \in set : pa.path = path
    THEN Some(CHOOSE pa \in set : pa.path = path)
    ELSE None

\* HashSet<Arc<Path>>::insert: an equal element already held is kept
HashSet_insert(set, pa) ==
    IF \E held \in set : held.path = pa.path THEN set ELSE set \cup {pa}

\* Manifest::new
Manifest_new(base_path) == [base_path |-> base_path, paths |-> {}, manifest |-> <<>>]

\* Manifest::insert with a new Arc for every message location
Manifest_insert_unshared(self, key, path, byte_offset, msg_length, ptr) ==
    IF key \in DOMAIN self.manifest
    THEN [self |-> self, result |-> Some(FALSE)]
    ELSE LET path_arc == Arc_new(path, ptr)
             msg_loc == [path |-> path_arc, byte_offset |-> byte_offset,
                         msg_length |-> msg_length]
         IN  [self |-> [self EXCEPT !.paths = HashSet_insert(self.paths, path_arc),
                                    !.manifest = MapInsert(self.manifest, key, msg_loc)],
              result |-> Some(TRUE)]

\* Manifest::insert; ptr is the allocation Arc::new returns if it is called.
\* The result is Some(bool), or None when the assert! of the last line fails.
Manifest_insert(self, key, path, byte_offset, msg_length, ptr) ==
    IF key \in DOMAIN self.manifest
    THEN [self |-> self, result |-> Some(FALSE)]
    ELSE LET held == HashSet_get(self.paths, path)
             path_arc == IF held # None THEN Unwrap(held) ELSE Arc_new(path, ptr)
             new_paths == IF held # None THEN self.paths
                          ELSE HashSet_insert(self.paths, path_arc)
             msg_loc == [path |-> path_arc, byte_offset |-> byte_offset,
                         msg_length |-> msg_length]
         IN  [self |-> [self EXCEPT !.paths = new_paths,
                                    !.manifest = MapInsert(self.manifest, key, msg_loc)],
              result |-> IF MapGet(self.manifest, key) = None THEN Some(TRUE) ELSE None]

\* Arc::strong_count: the HashSet's clone and one per message location
strong_count(pa) == 1 + Cardinality({k \in DOMAIN manifest : manifest[k].path = pa})

\* the keys, paths and byte offsets offered to Manifest::insert
Keys ==
    [reference_time : {"1996-12-19T16:00:00Z"},
     ensemble_member : {"Control", "Perturbed(1)"},
     forecast_step : {TimeDelta_zero},
     parameter : {"Temperature_K", "Geopotential_Height_gpm"},
     vertical_level : {"MeanSeaLevel"}]
ManifestPaths == {"baz/01", "baz/02"}
ByteOffsets == {0, 50}
MsgLengths == {4000}

MaxInserts == 3

ManifestInit ==
    /\ builder = None
    /\ built_from = None
    /\ numeric_id = None
    /\ numeric_id_to_param = ParameterDatabase_new.numeric_id_to_param
    /\ abbrev_to_numeric_id = ParameterDatabase_new.abbrev_to_numeric_id
    /\ calls = <<>>
    /\ MASTER_TABLE_VERSION \in MasterTableVersions
    /\ pc = "idle"
    /\ path_idx = 0
    /\ local_index = <<>>
    /\ resolutions = <<>>
    /\ encoded = None
    /\ decoded = None
    /\ TblIdle /\ AggIdle /\ LimIdle
    /\ paths = Manifest_new("foo/bar").paths
    /\ manifest = Manifest_new("foo/bar").manifest
    /\ manifest_inserts = <<>>

\* one call of Manifest::insert
ManifestInsert ==
    /\ Len(manifest_inserts) < MaxInserts
    /\ \E key \in Keys, path \in ManifestPaths, byte_offset \in ByteOffsets,
          msg_length \in MsgLengths :
        LET self == [base_path |-> "foo/bar", paths |-> paths, manifest |-> manifest]
            r == Manifest_insert(self, key, path, byte_offset, msg_length,
                                 Len(manifest_inserts) + 1)
        IN  /\ paths' = r.self.paths
            /\ manifest' = r.self.manifest
            /\ manifest_inserts' = Append(manifest_inserts,
                    [key |-> key, path |-> path, byte_offset |-> byte_offset,
                     msg_length |-> msg_length, result |-> r.result])
    /\ UNCHANGED <<nid_vars, db_vars, pop_vars, gefs_vars, tbl_vars, agg_vars, lim_vars>>

ManifestNext == ManifestInsert

SpecManifest == ManifestInit /\ [][ManifestNext]_vars

IsManifestInsertStep == Len(manifest_inserts') = Len(manifest_inserts) + 1
ThisInsert == manifest_inserts'[Len(manifest_inserts')]

\* the inserts that returned true, and the paths they named
AcceptedInserts == {i \in 1..Len(manifest_inserts) : manifest_inserts[i].result = Some(TRUE)}

\* C29: Manifest::insert returns true exactly when the key was not yet in the
\* manifest; on a key already present it returns false and changes neither the
\* map nor the paths. Every distinct path of an accepted insert is held once in
\* paths, and every message location holds the Arc that paths holds.
ManifestInsertContract ==
    /\ []( /\ \A a \in paths, b \in paths : a.path = b.path => a = b
           /\ {pa.path : pa \in paths} = {manifest_inserts[i].path : i \in AcceptedInserts}
           /\ DOMAIN manifest = {manifest_inserts[i].key : i \in AcceptedInserts}
           /\ \A k \in DOMAIN manifest : manifest[k].path \in paths )
    /\ [][IsManifestInsertStep =>
            /\ ThisInsert.result = Some(ThisInsert.key \notin DOMAIN manifest)
            /\ ThisInsert.key \in DOMAIN manifest => (manifest' = manifest /\ paths' = paths)
            /\ ThisInsert.key \notin DOMAIN manifest =>
                  /\ manifest'[ThisInsert.key].path.path = ThisInsert.path
                  /\ manifest'[ThisInsert.key].byte_offset = ThisInsert.byte_offset
                  /\ manifest'[ThisInsert.key].msg_length = ThisInsert.msg_length
                  /\ \A k \in DOMAIN manifest : manifest'[k] = manifest[k]]_vars

\* two keys share one stored path, and an insert of a key already present,
\* with another byte offset, has been refused
ManifestInsertContractWitness ==
    /\ Len(manifest_inserts) = 3
    /\ manifest_inserts[1].result = Some(TRUE)
    /\ manifest_inserts[2].result = Some(FALSE)
    /\ manifest_inserts[2].byte_offset # manifest_inserts[1].byte_offset
    /\ manifest_inserts[3].result = Some(TRUE)
    /\ manifest_inserts[3].path = manifest_inserts[1].path
    /\ Cardinality(paths) = 1
    /\ \A pa \in paths : strong_count(pa) = 3

\* ------------------------------------------- the label aggregators

\* object_store's Path::filename and Path::extension
Path_filename(path) == IF path = <<>> THEN None ELSE Some(path[Len(path)])

LastDot(str) ==
    IF \E i \in 1..Len(str) : str[i] = "."
    THEN Some(CHOOSE i \in 1..Len(str) : str[i] = "." /\ \A j \in (i + 1)..Len(str) : str[j] # ".")
    ELSE None

Path_extension(path) ==
    LET f == Path_filename(path)
    IN  IF f = None THEN None
        ELSE LET dot == LastDot(Unwrap(f))
             IN  IF dot = None THEN None
                 ELSE LET extension == SubSeq(Unwrap(f), Unwrap(dot) + 1, Len(Unwrap(f)))
                      IN  IF extension = <<>> THEN None ELSE Some(extension)

\* filter_by_ext that lets every listed entry through
filter_by_ext_any(list_result, extension) ==
    list_result.kind = "Ok"

\* the predicate of filter_by_ext: TRUE when the item stays in the stream
filter_by_ext(list_result, extension) ==
    /\ list_result.kind = "Ok"
    /\ LET meta == Unwrap(list_result.payload)
           ext == Path_extension(meta.location)
       IN  ext # None /\ Unwrap(ext) = extension

\* CoordLabelsBuilder::new of both crates: five empty sets
CoordLabelsBuilder_new ==
    [reference_datetime |-> {}, ensemble_member |-> {}, forecast_step |-> {},
     parameter |-> {}, vertical_level |-> {}]

\* Ord of the label types. Only reference datetimes are ever inserted, so only
\* DateTime<Utc> is ever compared.
Ord_lt(a, b) == DateTimeLess(a, b)

\* Vec::sort left out
sort_skipped(v) == v

\* Vec::sort: a stable ascending sort
sort(v) ==
    LET Rank(j) == 1 + Cardinality({k \in 1..Len(v) : Ord_lt(v[k], v[j])})
                     + Cardinality({k \in 1..(j - 1) : v[k] = v[j]})
    IN  [i \in 1..Len(v) |-> v[CHOOSE j \in 1..Len(v) : Rank(j) = i]]

\* the orders in which into_iter can yield the elements of a HashSet
HashSet_into_iter(set) ==
    {v \in [1..Cardinality(set) -> set] : \A x \in set : \E i \in 1..Cardinality(set) : v[i] = x}

\* the order in which into_iter yields the elements of a BTreeSet
BTreeSet_into_iter(set) ==
    {v \in HashSet_into_iter(set) : \A i \in 1..Len(v), j \in 1..Len(v) : i < j => Ord_lt(v[i], v[j])}

\* set_to_sorted_vec and to_sorted_vec, given what set.into_iter() yields
set_to_sorted_vec(into_iter) ==
    LET v == into_iter
    IN  sort(v)

\* CoordLabelsBuilder::build of both crates, given what each set's into_iter yields
CoordLabelsBuilder_build(into_iter) ==
    [reference_datetime |-> set_to_sorted_vec(into_iter.reference_datetime),
     ensemble_member |-> set_to_sorted_vec(into_iter.ensemble_member),
     forecast_step |-> set_to_sorted_vec(into_iter.forecast_step),
     parameter |-> set_to_sorted_vec(into_iter.parameter),
     vertical_level |-> set_to_sorted_vec(into_iter.vertical_level)]

\* what into_iter can yield for the five sets of a builder
IntoIters(self) ==
    IF aggregator = "hypergrib"
    THEN [reference_datetime : HashSet_into_iter(self.reference_datetime),
          ensemble_member : HashSet_into_iter(self.ensemble_member),
          forecast_step : HashSet_into_iter(self.forecast_step),
          parameter : HashSet_into_iter(self.parameter),
          vertical_level : HashSet_into_iter(self.vertical_level)]
    ELSE [reference_datetime : BTreeSet_into_iter(self.reference_datetime),
          ensemble_member : BTreeSet_into_iter(self.ensemble_member),
          forecast_step : BTreeSet_into_iter(self.forecast_step),
          parameter : BTreeSet_into_iter(self.parameter),
          vertical_level : BTreeSet_into_iter(self.vertical_level)]

\* the entries a listing of the idx store can yield: two layouts of one run,
\* another run, a date that does not exist, a file with another extension, a
\* file with no extension, an upper-case extension, and a transport error
Date20170101 == <<"g", "e", "f", "s", ".", "2", "0", "1", "7", "0", "1", "0", "1">>
Date20200229 == <<"g", "e", "f", "s", ".", "2", "0", "2", "0", "0", "2", "2", "9">>
Date20190229 == <<"g", "e", "f", "s", ".", "2", "0", "1", "9", "0", "2", "2", "9">>
ListedLocations ==
    { <<BUCKET_ID, Date20170101, <<"0", "0">>, FileIdx>>,
      <<BUCKET_ID, Date20170101, <<"0", "0">>, <<"p", "g", "r", "b", "2", "a">>, FileIdx>>,
      <<BUCKET_ID, Date20200229, <<"1", "8">>, FileIdx>>,
      <<BUCKET_ID, Date20190229, <<"0", "0">>, FileIdx>>,
      <<BUCKET_ID, Date20170101, <<"0", "0">>, FileNoIdx>>,
      <<BUCKET_ID, Date20170101, <<"0", "0">>, <<"i", "d", "x">>>>,
      <<BUCKET_ID, Date20170101, <<"0", "0">>, <<"a", ".", "I", "D", "X">>>> }
TransportError == Err("object_store::Error")
ListItems == {OkOf([location |-> location]) : location \in ListedLocations} \cup {TransportError}

\* the common prefixes list_with_depth can return: two spellings of one run,
\* another run, and a date that does not exist
CommonPrefixes ==
    { <<Date20170101, <<"0", "0">>>>,
      <<Date20170101, <<"0">>>>,
      <<Date20200229, <<"1", "8">>>>,
      <<Date20190229, <<"0", "0">>>> }

MaxListed == 3

AggInit ==
    /\ builder = None
    /\ built_from = None
    /\ numeric_id = None
    /\ numeric_id_to_param = ParameterDatabase_new.numeric_id_to_param
    /\ abbrev_to_numeric_id = ParameterDatabase_new.abbrev_to_numeric_id
    /\ calls = <<>>
    /\ MASTER_TABLE_VERSION \in MasterTableVersions
    /\ pc = "idle"
    /\ path_idx = 0
    /\ local_index = <<>>
    /\ resolutions = <<>>
    /\ encoded = None
    /\ decoded = None
    /\ TblIdle /\ ManIdle /\ LimIdle
    /\ aggregator \in {"hypergrib", "indexer"}
    /\ list_stream = <<>>
    /\ agg_pc = "listing"
    /\ coord_labels_builder = CoordLabelsBuilder_new
    /\ decoder_calls = <<>>
    /\ coord_labels = None

\* hypergrib's extract_from_idx_paths: the listing yields its next item, the
\* filter keeps or drops it, and the loop body runs on an item that is kept
ListStreamNext ==
    /\ aggregator = "hypergrib"
    /\ agg_pc = "listing"
    /\ Len(list_stream) < MaxListed
    /\ \E list_result \in ListItems :
        /\ list_stream' = Append(list_stream, list_result)
        /\ IF ~filter_by_ext(list_result, <<"i", "d", "x">>)
           THEN UNCHANGED <<agg_pc, coord_labels_builder, decoder_calls>>
           ELSE IF list_result.kind # "Ok"
           THEN agg_pc' = "panicked" /\ UNCHANGED <<coord_labels_builder, decoder_calls>>
           ELSE LET meta == Unwrap(list_result.payload)
                    r == decode(meta.location)
                IN  /\ decoder_calls' = Append(decoder_calls, meta.location)
                    /\ agg_pc' = CASE r.kind = "Ok" -> agg_pc
                                    [] r.kind = "panic" -> "panicked"
                                    [] OTHER -> "failed"
                    /\ coord_labels_builder' =
                          IF r.kind = "Ok"
                          THEN [coord_labels_builder EXCEPT !.reference_datetime =
                                    @ \cup {Unwrap(r.payload)}]
                          ELSE coord_labels_builder
    /\ UNCHANGED <<aggregator, coord_labels>>
    /\ UNCHANGED <<nid_vars, db_vars, pop_vars, gefs_vars, tbl_vars, man_vars, lim_vars>>

\* the indexer's get_reference_datetimes: list_with_depth(..).await? fails
ListWithDepthErr ==
    /\ aggregator = "indexer"
    /\ agg_pc = "listing"
    /\ list_stream = <<>>
    /\ list_stream' = <<TransportError>>
    /\ agg_pc' = "failed"
    /\ UNCHANGED <<aggregator, coord_labels_builder, decoder_calls, coord_labels>>
    /\ UNCHANGED <<nid_vars, db_vars, pop_vars, gefs_vars, tbl_vars, man_vars, lim_vars>>

\* the indexer's get_reference_datetimes: the loop body on the next common prefix
CommonPrefixNext ==
    /\ aggregator = "indexer"
    /\ agg_pc = "listing"
    /\ Len(list_stream) < MaxListed
    /\ \E prefix \in CommonPrefixes :
        /\ \A i \in 1..Len(list_stream) : list_stream[i] # OkOf([location |-> prefix])
        /\ list_stream' = Append(list_stream, OkOf([location |-> prefix]))
        /\ decoder_calls' = Append(decoder_calls, prefix)
        /\ LET r == path_to_reference_datetime(prefix)
               datetime_is_unique == Unwrap(r.payload) \notin coord_labels_builder.reference_datetime
           IN  /\ agg_pc' = IF r.kind = "panic" THEN "panicked"
                             ELSE IF r.kind = "Err" THEN "failed"
                             ELSE IF ~datetime_is_unique THEN "panicked"
                             ELSE agg_pc
               /\ coord_labels_builder' =
                     IF r.kind = "Ok"
                     THEN [coord_labels_builder EXCEPT !.reference_datetime =
                               @ \cup {Unwrap(r.payload)}]
                     ELSE coord_labels_builder
    /\ UNCHANGED <<aggregator, coord_labels>>
    /\ UNCHANGED <<nid_vars, db_vars, pop_vars, gefs_vars, tbl_vars, man_vars, lim_vars>>

\* get_coord_labels of both crates once the listing is exhausted: the
\* extraction returns Ok(()) and the builder is built
ListingEnd ==
    /\ agg_pc = "listing"
    /\ agg_pc' = "done"
    /\ \E into_iter \in IntoIters(coord_labels_builder) :
        coord_labels' = Some(CoordLabelsBuilder_build(into_iter))
    /\ UNCHANGED <<aggregator, list_stream, coord_labels_builder, decoder_calls>>
    /\ UNCHANGED <<nid_vars, db_vars, pop_vars, gefs_vars, tbl_vars, man_vars, lim_vars>>

AggNext ==
    \/ ListStreamNext
    \/ ListWithDepthErr
    \/ CommonPrefixNext
    \/ ListingEnd

SpecAggregate == AggInit /\ [][AggNext]_vars

\* the decoder the running aggregator uses
AggDecode(location) ==
    IF aggregator = "hypergrib" THEN decode(location) ELSE path_to_reference_datetime(location)

\* the listed entries the aggregator is to decode: every successfully listed
\* entry whose last part ends with ".idx" (hypergrib), every prefix (indexer)
IsListed(i) == list_stream[i].kind = "Ok"
ListedLocation(i) == Unwrap(list_stream[i].payload).location
HasIdxExtension(location) == location # <<>> /\ ends_with(location[Len(location)], DotIdx)
IsEntry(i) ==
    IsListed(i) /\ (aggregator = "hypergrib" => HasIdxExtension(ListedLocation(i)))
Entries == {i \in 1..Len(list_stream) : IsEntry(i)}
WellFormed == {i \in Entries : AggDecode(ListedLocation(i)).kind = "Ok"}
DatetimeOfEntry(i) == Unwrap(AggDecode(ListedLocation(i)).payload)
WellFormedDatetimes == {DatetimeOfEntry(i) : i \in WellFormed}
HasTransportError == \E i \in 1..Len(list_stream) : ~IsListed(i)
AggLabels == Unwrap(coord_labels)

\* C21: a listing in which several entries decode to the same reference
\* datetime is aggregated without error or panic, and the reference-datetime
\* labels are as many as the distinct datetimes.
DuplicatesDeduplicated ==
    (/\ ~HasTransportError
     /\ WellFormed = Entries
     /\ Cardinality(WellFormedDatetimes) < Cardinality(Entries))
        => /\ agg_pc \in {"listing", "done"}
           /\ Cardinality(coord_labels_builder.reference_datetime) = Cardinality(WellFormedDatetimes)
           /\ agg_pc = "done" => Len(AggLabels.reference_datetime) = Cardinality(WellFormedDatetimes)

IsStrictlyAscending(v) == \A i \in 1..Len(v), j \in 1..Len(v) : i < j => DateTimeLess(v[i], v[j])
Elements(v) == {v[i] : i \in 1..Len(v)}
InsertedDatetimes ==
    {Unwrap(AggDecode(decoder_calls[i]).payload) :
        i \in {k \in 1..Len(decoder_calls) : AggDecode(decoder_calls[k]).kind = "Ok"}}

\* C22: each of the five label sequences build returns is strictly ascending
\* and holds exactly the values inserted into its set during the aggregation.
BuiltLabelsSorted ==
    coord_labels # None
        => /\ IsStrictlyAscending(AggLabels.reference_datetime)
           /\ Elements(AggLabels.reference_datetime) = InsertedDatetimes
           /\ AggLabels.ensemble_member = <<>>
           /\ AggLabels.forecast_step = <<>>
           /\ AggLabels.parameter = <<>>
           /\ AggLabels.vertical_level = <<>>

\* three insertions, the later one smaller, one value twice
BuiltLabelsSortedWitness ==
    /\ coord_labels # None
    /\ aggregator = "hypergrib"
    /\ Len(decoder_calls) = 3
    /\ \A i \in 1..3 : AggDecode(decoder_calls[i]).kind = "Ok"
    /\ DateTimeLess(Unwrap(AggDecode(decoder_calls[2]).payload),
                    Unwrap(AggDecode(decoder_calls[1]).payload))
    /\ AggDecode(decoder_calls[3]).payload = AggDecode(decoder_calls[2]).payload
    /\ Len(AggLabels.reference_datetime) = 2

\* C23: an entry that fails to decode is left out and the aggregation goes
\* on: it does not fail on a listing without transport errors, and when it
\* completes the labels are the reference datetimes of all well-formed entries.
MalformedEntriesSkipped ==
    (~HasTransportError /\ WellFormed # Entries)
        => /\ agg_pc \in {"listing", "done"}
           /\ WellFormedDatetimes \subseteq coord_labels_builder.reference_datetime
           /\ agg_pc = "done" => Elements(AggLabels.reference_datetime) = WellFormedDatetimes

\* C24: once the listing has yielded a transport error the aggregation
\* returns an error: it neither goes on listing nor returns Ok.
TransportErrorsPropagate ==
    HasTransportError => agg_pc = "failed"

\* C25: hypergrib's aggregator hands to the decoder exactly the successfully
\* listed entries whose extension is idx, in the order of the listing.
DecoderSeesOnlyIdx ==
    aggregator = "hypergrib"
        => /\ Len(decoder_calls) = Cardinality(Entries)
           /\ \A k \in 1..Len(decoder_calls) :
                 \E i \in Entries :
                    /\ Cardinality({j \in Entries : j <= i}) = k
                    /\ decoder_calls[k] = ListedLocation(i)
           /\ \A k \in 1..Len(decoder_calls) : HasIdxExtension(decoder_calls[k])

\* an idx entry between an entry with no extension and one with another extension
DecoderSeesOnlyIdxWitness ==
    /\ aggregator = "hypergrib"
    /\ Len(list_stream) = 3
    /\ \A i \in 1..3 : IsListed(i)
    /\ Path_extension(ListedLocation(1)) = None
    /\ IsEntry(2)
    /\ Path_extension(ListedLocation(3)) \notin {None, Some(<<"i", "d", "x">>)}
    /\ Len(decoder_calls) = 1

\* ------------------------------------------------- the LimitStore

\* coord_labels_builder.rs: const CONCURRENCY_LIMIT: Option<usize> = Some(1000)
CONCURRENCY_LIMIT == 1000

\* The store is first seen when all but Headroom of its permits are out, and
\* MaxTasks further tasks are spawned from there.
Headroom == 2
MaxTasks == 5

in_flight == granted - completed

\* new_from_url with CONCURRENCY_LIMIT = None: the store is not wrapped
LimitStore_has_permit_unlimited(n_in_flight) == TRUE

\* LimitStore::new(store, concurrency_limit): a semaphore of concurrency_limit
\* permits; an operation starts only when it holds one
LimitStore_has_permit(n_in_flight) == n_in_flight < CONCURRENCY_LIMIT

LimInit ==
    /\ builder = None
    /\ built_from = None
    /\ numeric_id = None
    /\ numeric_id_to_param = ParameterDatabase_new.numeric_id_to_param
    /\ abbrev_to_numeric_id = ParameterDatabase_new.abbrev_to_numeric_id
    /\ calls = <<>>
    /\ MASTER_TABLE_VERSION \in MasterTableVersions
    /\ pc = "idle"
    /\ path_idx = 0
    /\ local_index = <<>>
    /\ resolutions = <<>>
    /\ encoded = None
    /\ decoded = None
    /\ TblIdle /\ ManIdle /\ AggIdle
    /\ requested = CONCURRENCY_LIMIT - Headroom
    /\ granted = CONCURRENCY_LIMIT - Headroom
    /\ completed = 0

\* a spawned task calls list_with_delimiter on its clone of the store: the
\* operation queues for a permit
ListWithDelimiter ==
    /\ requested < CONCURRENCY_LIMIT - Headroom + MaxTasks
    /\ requested' = requested + 1
    /\ UNCHANGED <<granted, completed>>
    /\ UNCHANGED <<nid_vars, db_vars, pop_vars, gefs_vars, tbl_vars, man_vars, agg_vars>>

\* the operation at the head of the queue gets a permit and is issued
AcquirePermit ==
    /\ granted < requested
    /\ LimitStore_has_permit(in_flight)
    /\ granted' = granted + 1
    /\ UNCHANGED <<requested, completed>>
    /\ UNCHANGED <<nid_vars, db_vars, pop_vars, gefs_vars, tbl_vars, man_vars, agg_vars>>

\* an operation in flight returns and gives its permit back
OperationCompletes ==
    /\ completed < granted
    /\ completed' = completed + 1
    /\ UNCHANGED <<requested, granted>>
    /\ UNCHANGED <<nid_vars, db_vars, pop_vars, gefs_vars, tbl_vars, man_vars, agg_vars>>

LimNext ==
    \/ ListWithDelimiter
    \/ AcquirePermit
    \/ OperationCompletes

SpecLimit == LimInit /\ [][LimNext]_vars

\* The runtime polls a task that can take a permit, and the storage answers
\* every operation it has been sent.
FairSpecLimit == SpecLimit /\ WF_vars(AcquirePermit) /\ WF_vars(OperationCompletes)

\* the operations requested from the store by the spawned tasks
Tickets == (CONCURRENCY_LIMIT - Headroom + 1)..(CONCURRENCY_LIMIT - Headroom + MaxTasks)

====
